---- MODULE Spec2Model ----
(***************************************************************************)
(* Verification model of project-graph-mcp: the legend minifier and graph  *)
(* builder (graph-builder.js), the dead-code detector (dead-code.js), the  *)
(* single-slot graph cache (tools.js) behind the stdio server              *)
(* (mcp-server.js), the file filters (filters.js), the rule store          *)
(* (custom-rules.js) and the per-file reads of the top-level queries.      *)
(* Each subsystem has its own specification; the variables of the other    *)
(* subsystems stay at their initial values under it.                       *)
(***************************************************************************)
EXTENDS Integers, Sequences, FiniteSets, TLC

VARIABLES
    \* minifyLegend (graph-builder.js)
    names,        \* the argument list of the running call
    legend,       \* const legend = {}   (name -> short code)
    used,         \* const used = new Set()
    idx,          \* position of the for-of loop in names
    lpc,          \* "idle" | "loop" | "done"
    calls,        \* number of completed calls on this list
    firstLegend,  \* legend returned by the first call
    \* createShortName on one name
    snName,       \* the name passed in
    snShort,      \* the returned base code
    snPc,         \* "call" | "ret"
    \* graph cache (tools.js) behind the stdio line handlers (mcp-server.js)
    cachedGraph,  \* let cachedGraph = null
    cachedPath,   \* let cachedPath = null
    reqs,         \* the line handlers started so far, in arrival order
    phase,        \* "emit": readline emits the lines of a chunk; "micro": continuations run
    chunkLines,   \* lines emitted from the current chunk
    invCount,     \* invalidateCache() calls made so far
    lastBuilt,    \* root of the most recently built graph (history)
    invSince,     \* invalidateCache() called since the last build (history)
    \* file filters (filters.js) read by findJSFiles
    config,       \* let config = { excludeDirs, useGitignore, gitignorePatterns }
    rootIgnore,   \* per root: the patterns of its .gitignore, or NoFile
    rootEntries,  \* per root: the names of its directory entries
    found,        \* per root: what the last findJSFiles(root) returned, or Null
    \* rule store (custom-rules.js), shared by two server processes
    store,        \* RULES_DIR: file name -> record, Missing or Partial
    store0,       \* the store before the first write (history)
    procs,        \* per process: its set/delete call and how far it got
    \* dead-code detector (dead-code.js)
    dcFs,         \* the project's files: path -> what the file holds
    dcDir,        \* the directory handed to getDeadCode
    dcResult,     \* what getDeadCode returned (or that it threw), NullRec before
    \* buildGraph (graph-builder.js)
    parsed,       \* the ParseResult handed to buildGraph
    graph,        \* the Graph it returned, NullRec before
    \* checkFileAgainstRule (custom-rules.js)
    ckRule,       \* the rule being checked
    ckLine,       \* lines[i], the line under the loop
    ckLineNo,     \* i + 1
    ckPc,         \* "check" | "next" | "done"
    ckViolations, \* const violations = []
    \* checkCustomRules (custom-rules.js)
    crRules,      \* allRules, each with the lines it matches
    crSeverity,   \* options.severity, Null when not given
    crResult,     \* what checkCustomRules returned, NullRec before
    \* calculateHealthScore (full-analysis.js)
    hsResults,    \* the counts in the six scorer results
    hsOverall,    \* what calculateHealthScore returned, NullRec before
    \* getFullAnalysis (full-analysis.js)
    faPc,         \* position in getFullAnalysis
    faNext,       \* index of the next array element to evaluate
    faStarted,    \* how many times each scorer was called
    faSettled,    \* each scorer promise: pending, a value, or rejected
    faOverall,    \* the composed health, NullRec before
    \* getSimilarFunctions (similar-functions.js)
    sfA,          \* the first collected signature
    sfB,          \* the second collected signature
    sfResult,     \* what getSimilarFunctions returned, NullRec before
    \* calculateComplexity (complexity.js)
    cxBody,       \* the constructs of one function body, in source order
    cxItem,       \* the item analyzeFile pushed for it, NullRec before
    \* expand, deps, usages (tools.js)
    tlProject,    \* what parseProject reads under the cached path
    tlCached,     \* cachedGraph, NullRec when the cache is empty
    tlCached0,    \* cachedGraph before the call (history)
    tlCall,       \* the tool called and its symbol, NullRec before
    tlResult,     \* what the tool returned, NullRec before
    \* test checklist (test-annotations.js)
    taFeatures,   \* what getAllFeatures finds in the directory
    testState,    \* testState: test id -> {completed, passed, reason}
    taLog,        \* the mark and reset calls made so far (history)
    taResponse,   \* what the last tool call returned, NullRec before
    \* the custom rule tools of one server (custom-rules.js)
    rdFiles,      \* RULES_DIR: file -> what it holds
    rdFiles0,     \* RULES_DIR before the call (history)
    rdCall,       \* the tool called and its arguments, NullRec before
    rdResult,     \* what the tool returned, or that it threw; NullRec before
    \* MCP server over stdio (mcp-server.js)
    svVariant,    \* which createServer answers: handleMessage or handleRequest
    clientSupportsRoots, \* clientSupportsRoots
    nextRequestId, \* nextRequestId
    pendingRequests, \* the keys of pendingRequests
    svTimers,     \* the roots/list requests whose timer is armed
    svPromises,   \* per roots/list request: the promise and who awaits it
    svRoots,      \* the workspace roots: default or given by the client
    svCacheValid, \* FALSE once invalidateCache ran
    svHandled,    \* lines read so far
    svLast,       \* the last line read and what was sent while handling it
    svCaught      \* the catch of the line handler ran

legendVars == <<names, legend, used, idx, lpc, calls, firstLegend>>
shortVars == <<snName, snShort, snPc>>
filterVars == <<config, rootIgnore, rootEntries, found>>
ruleVars == <<store, store0, procs>>
deadVars == <<dcFs, dcDir, dcResult>>
graphVars == <<parsed, graph>>
cacheVars == <<cachedGraph, cachedPath, reqs, phase, chunkLines, invCount, lastBuilt, invSince>>
checkVars == <<ckRule, ckLine, ckLineNo, ckPc, ckViolations>>
dedupVars == <<crRules, crSeverity, crResult>>
healthVars == <<hsResults, hsOverall>>
fullVars == <<faPc, faNext, faStarted, faSettled, faOverall>>
similarVars == <<sfA, sfB, sfResult>>
complexityVars == <<cxBody, cxItem>>
toolVars == <<tlProject, tlCached, tlCached0, tlCall, tlResult>>
testVars == <<taFeatures, testState, taLog, taResponse>>
rulesDirVars == <<rdFiles, rdFiles0, rdCall, rdResult>>
serverVars == <<svVariant, clientSupportsRoots, nextRequestId, pendingRequests, svTimers, svPromises, svRoots, svCacheValid, svHandled, svLast, svCaught>>

\* what a subsystem's actions leave alone: the variables of the others
notLegend == <<shortVars, cacheVars, filterVars, ruleVars, deadVars, graphVars, checkVars, dedupVars, healthVars, fullVars, similarVars, complexityVars, toolVars, testVars, rulesDirVars, serverVars>>
notShort == <<legendVars, cacheVars, filterVars, ruleVars, deadVars, graphVars, checkVars, dedupVars, healthVars, fullVars, similarVars, complexityVars, toolVars, testVars, rulesDirVars, serverVars>>
notCache == <<legendVars, shortVars, filterVars, ruleVars, deadVars, graphVars, checkVars, dedupVars, healthVars, fullVars, similarVars, complexityVars, toolVars, testVars, rulesDirVars, serverVars>>
notFilter == <<legendVars, shortVars, cacheVars, ruleVars, deadVars, graphVars, checkVars, dedupVars, healthVars, fullVars, similarVars, complexityVars, toolVars, testVars, rulesDirVars, serverVars>>
notRule == <<legendVars, shortVars, cacheVars, filterVars, deadVars, graphVars, checkVars, dedupVars, healthVars, fullVars, similarVars, complexityVars, toolVars, testVars, rulesDirVars, serverVars>>
notDead == <<legendVars, shortVars, cacheVars, filterVars, ruleVars, graphVars, checkVars, dedupVars, healthVars, fullVars, similarVars, complexityVars, toolVars, testVars, rulesDirVars, serverVars>>
notGraph == <<legendVars, shortVars, cacheVars, filterVars, ruleVars, deadVars, checkVars, dedupVars, healthVars, fullVars, similarVars, complexityVars, toolVars, testVars, rulesDirVars, serverVars>>
notCheck == <<legendVars, shortVars, cacheVars, filterVars, ruleVars, deadVars, graphVars, dedupVars, healthVars, fullVars, similarVars, complexityVars, toolVars, testVars, rulesDirVars, serverVars>>
notDedup == <<legendVars, shortVars, cacheVars, filterVars, ruleVars, deadVars, graphVars, checkVars, healthVars, fullVars, similarVars, complexityVars, toolVars, testVars, rulesDirVars, serverVars>>
notHealth == <<legendVars, shortVars, cacheVars, filterVars, ruleVars, deadVars, graphVars, checkVars, dedupVars, fullVars, similarVars, complexityVars, toolVars, testVars, rulesDirVars, serverVars>>
notFull == <<legendVars, shortVars, cacheVars, filterVars, ruleVars, deadVars, graphVars, checkVars, dedupVars, healthVars, similarVars, complexityVars, toolVars, testVars, rulesDirVars, serverVars>>
notSimilar == <<legendVars, shortVars, cacheVars, filterVars, ruleVars, deadVars, graphVars, checkVars, dedupVars, healthVars, fullVars, complexityVars, toolVars, testVars, rulesDirVars, serverVars>>
notComplexity == <<legendVars, shortVars, cacheVars, filterVars, ruleVars, deadVars, graphVars, checkVars, dedupVars, healthVars, fullVars, similarVars, toolVars, testVars, rulesDirVars, serverVars>>
notTool == <<legendVars, shortVars, cacheVars, filterVars, ruleVars, deadVars, graphVars, checkVars, dedupVars, healthVars, fullVars, similarVars, complexityVars, testVars, rulesDirVars, serverVars>>
notTest == <<legendVars, shortVars, cacheVars, filterVars, ruleVars, deadVars, graphVars, checkVars, dedupVars, healthVars, fullVars, similarVars, complexityVars, toolVars, rulesDirVars, serverVars>>
notRulesDir == <<legendVars, shortVars, cacheVars, filterVars, ruleVars, deadVars, graphVars, checkVars, dedupVars, healthVars, fullVars, similarVars, complexityVars, toolVars, testVars, serverVars>>
notServer == <<legendVars, shortVars, cacheVars, filterVars, ruleVars, deadVars, graphVars, checkVars, dedupVars, healthVars, fullVars, similarVars, complexityVars, toolVars, testVars, rulesDirVars>>
vars == <<legendVars, shortVars, cacheVars, filterVars, ruleVars, deadVars, graphVars, checkVars, dedupVars, healthVars, fullVars, similarVars, complexityVars, toolVars, testVars, rulesDirVars, serverVars>>

----------------------------------------------------------------------------
(* Characters and strings.  A string is a sequence of one-character        *)
(* strings, so that replace/match/slice are computed, not assumed.         *)

Lower == {"a", "b"}
Upper == {"A", "B"}
Other == {"1", "_"}
Alphabet == Lower \cup Upper \cup Other

Min(a, b) == IF a < b THEN a ELSE b

\* String.prototype.toLowerCase on one character
toLowerCase(c) == IF c = "A" THEN "a" ELSE IF c = "B" THEN "b" ELSE c

\* String.prototype.slice(0, n)
slice0(s, n) == SubSeq(s, 1, Min(n, Len(s)))

IsLower(c) == c \in Lower
IsUpper(c) == c \in Upper
NotLower(c) == c \notin Lower

Digits == <<"0", "1", "2", "3", "4", "5", "6", "7", "8", "9">>

\* decimal text of a natural number (string concatenation short + suffix)
RECURSIVE NumToStr(_)
NumToStr(n) == IF n < 10 THEN <<Digits[n + 1]>>
               ELSE NumToStr(n \div 10) \o <<Digits[(n % 10) + 1]>>

----------------------------------------------------------------------------
(* graph-builder.js: createShortName                                       *)

createShortName(name) ==
    LET upperOnly == SelectSeq(name, NotLower)          \* replace(/[a-z]/g, '')
        firstUpper == SelectSeq(name, IsUpper)          \* match(/[A-Z]/g)
    IN  IF Len(upperOnly) >= 2 THEN slice0(upperOnly, 3)
        ELSE IF Len(firstUpper) > 0
             THEN <<toLowerCase(name[1]), firstUpper[1]>>
             ELSE slice0(name, 2)

----------------------------------------------------------------------------
(* Bounds of the legend model                                              *)

MaxNameLen == 3     \* longest name handed to createShortName alone
MaxNames == 4       \* longest list handed to minifyLegend

\* every name of 1..MaxNameLen characters over the alphabet
AllNames == UNION {[1..k -> Alphabet] : k \in 1..MaxNameLen}

\* names handed to minifyLegend: PascalCase and camelCase names whose base
\* codes collide with each other (AA, AaA, aAA -> AA; AA1, AaA1 -> AA1;
\* aA, Aa -> aA) and with each other's suffixed codes (AA + 1 = AA1)
NamePool ==
    { <<"A", "A">>, <<"A", "a", "A">>, <<"a", "A", "A">>,
      <<"A", "A", "1">>, <<"A", "a", "A", "1">>,
      <<"a", "A">>, <<"A", "a">> }

NameLists == UNION {[1..k -> NamePool] : k \in 0..MaxNames}

EmptyMap == [x \in {} |-> <<>>]

\* legend[name] = short
MapSet(m, k, v) == [x \in (DOMAIN m) \cup {k} |-> IF x = k THEN v ELSE m[x]]

----------------------------------------------------------------------------
(* graph-builder.js: minifyLegend                                          *)

\* while (used.has(short)) { short = createShortName(name) + suffix; suffix++ }
RECURSIVE Probe(_, _, _, _)
Probe(name, usedSet, short, suffix) ==
    IF short \notin usedSet THEN short
    ELSE Probe(name, usedSet, createShortName(name) \o NumToStr(suffix), suffix + 1)

\* the first candidate taken without looking at the used set
ResolveCollisionUnchecked(name, usedSet) == createShortName(name)

\* let short = createShortName(name); let suffix = 1; while (...) ...
ResolveCollision(name, usedSet) == Probe(name, usedSet, createShortName(name), 1)

LegendInit ==
    /\ names \in NameLists
    /\ legend = EmptyMap
    /\ used = {}
    /\ idx = 1
    /\ lpc = "idle"
    /\ calls = 0
    /\ firstLegend = EmptyMap

LegendIdle ==
    /\ names = <<>>
    /\ legend = EmptyMap
    /\ used = {}
    /\ idx = 1
    /\ lpc = "idle"
    /\ calls = 0
    /\ firstLegend = EmptyMap

\* entry of minifyLegend(names): fresh legend and used set
MinifyStart ==
    /\ lpc = "idle"
    /\ calls < 2
    /\ legend' = EmptyMap
    /\ used' = {}
    /\ idx' = 1
    /\ lpc' = "loop"
    /\ UNCHANGED <<names, calls, firstLegend>>
    /\ UNCHANGED notLegend

\* one iteration of for (const name of names)
MinifyIterate ==
    /\ lpc = "loop"
    /\ idx <= Len(names)
    /\ LET name == names[idx]
           short == ResolveCollision(name, used)
       IN  /\ used' = used \cup {short}
           /\ legend' = MapSet(legend, name, short)
    /\ idx' = idx + 1
    /\ UNCHANGED <<names, lpc, calls, firstLegend>>
    /\ UNCHANGED notLegend

\* return legend
MinifyReturn ==
    /\ lpc = "loop"
    /\ idx > Len(names)
    /\ lpc' = "idle"
    /\ calls' = calls + 1
    /\ firstLegend' = IF calls = 0 THEN legend ELSE firstLegend
    /\ UNCHANGED <<names, legend, used, idx>>
    /\ UNCHANGED notLegend

LegendNext == MinifyStart \/ MinifyIterate \/ MinifyReturn

----------------------------------------------------------------------------
(* createShortName applied to one name                                     *)

ShortInit ==
    /\ snName \in AllNames
    /\ snShort = <<>>
    /\ snPc = "call"

ShortIdle ==
    /\ snName = <<"a">>
    /\ snShort = <<>>
    /\ snPc = "call"

ShortNameCall ==
    /\ snPc = "call"
    /\ snShort' = createShortName(snName)
    /\ snPc' = "ret"
    /\ UNCHANGED snName
    /\ UNCHANGED notShort

ShortNext == ShortNameCall

----------------------------------------------------------------------------
(* tools.js: the single-slot graph cache, driven by the stdio server's     *)
(* 'line' handlers.  readline emits every line of one input chunk          *)
(* synchronously; an async handler runs up to its first await (getGraph's  *)
(* await parseProject) and its continuation runs as a microtask, after     *)
(* the last line of the chunk was emitted and before the next chunk.       *)

MaxReq == 5          \* requests per run

Null == "null"                \* null where a string is expected
NullRec == [tag |-> "null"]    \* null where an object is expected
DefaultPath == "src/components"
Paths == {"A", DefaultPath}
GraphTools == {"get_skeleton", "deps"}     \* deps stands for expand / deps / usages

\* the root a graph tool hands to getGraph
QueryPath(tool, argPath) ==
    IF tool = "get_skeleton" THEN argPath
    ELSE IF cachedPath # Null THEN cachedPath ELSE DefaultPath   \* cachedPath || 'src/components'

\* a cached graph reused whatever root it was built for
CacheHitAnyPath(path) == cachedGraph # NullRec

\* if (cachedGraph && cachedPath === path)
CacheHit(path) == cachedGraph # NullRec /\ cachedPath = path

CacheInit ==
    /\ cachedGraph = NullRec
    /\ cachedPath = Null
    /\ reqs = <<>>
    /\ phase = "emit"
    /\ chunkLines = 0
    /\ invCount = 0
    /\ lastBuilt = Null
    /\ invSince = FALSE

\* a line holding a graph tool call: the handler runs getGraph up to its await
LineQuery(tool, argPath, maxLines) ==
    /\ phase = "emit"
    /\ chunkLines < maxLines
    /\ Len(reqs) < MaxReq
    /\ LET path == QueryPath(tool, argPath)
           hit == CacheHit(path)
       IN  reqs' = Append(reqs,
                [ tool |-> tool, path |-> path,
                  pc |-> IF hit THEN "done" ELSE "parsing",
                  hit |-> hit,
                  startInv |-> invCount,
                  buildInv |-> invCount,
                  answer |-> IF hit THEN cachedGraph ELSE NullRec,
                  sawBuilt |-> lastBuilt, sawInvSince |-> invSince,
                  sawGraph |-> cachedGraph ])
    /\ chunkLines' = chunkLines + 1
    /\ UNCHANGED <<cachedGraph, cachedPath, phase, invCount, lastBuilt, invSince>>
    /\ UNCHANGED notCache

\* a line holding invalidate_cache: invalidateCache() runs synchronously
LineInvalidate(maxLines) ==
    /\ phase = "emit"
    /\ chunkLines < maxLines
    /\ Len(reqs) < MaxReq
    /\ cachedGraph' = NullRec
    /\ cachedPath' = Null
    /\ invCount' = invCount + 1
    /\ invSince' = TRUE
    /\ reqs' = Append(reqs,
            [ tool |-> "invalidate_cache", path |-> Null, pc |-> "done", hit |-> FALSE,
              startInv |-> invCount, buildInv |-> invCount, answer |-> NullRec,
              sawBuilt |-> lastBuilt, sawInvSince |-> invSince, sawGraph |-> cachedGraph ])
    /\ chunkLines' = chunkLines + 1
    /\ UNCHANGED <<phase, lastBuilt>>
    /\ UNCHANGED notCache

\* the chunk's last line was emitted: the pending continuations run
EndChunk ==
    /\ phase = "emit"
    /\ chunkLines > 0
    /\ phase' = "micro"
    /\ UNCHANGED <<cachedGraph, cachedPath, reqs, chunkLines, invCount, lastBuilt, invSince>>
    /\ UNCHANGED notCache

\* getGraph after the await: cachedGraph = buildGraph(parsed); cachedPath = path
FinishBuild(i) ==
    /\ phase = "micro"
    /\ reqs[i].pc = "parsing"
    /\ LET g == [path |-> reqs[i].path, buildInv |-> reqs[i].buildInv]
       IN  /\ cachedGraph' = g
           /\ reqs' = [reqs EXCEPT ![i].pc = "done", ![i].answer = g]
    /\ cachedPath' = reqs[i].path
    /\ lastBuilt' = reqs[i].path
    /\ invSince' = FALSE
    /\ UNCHANGED <<phase, chunkLines, invCount>>
    /\ UNCHANGED notCache

\* every continuation has run: the next chunk of input is read
NextChunk ==
    /\ phase = "micro"
    /\ \A i \in 1..Len(reqs) : reqs[i].pc = "done"
    /\ phase' = "emit"
    /\ chunkLines' = 0
    /\ UNCHANGED <<cachedGraph, cachedPath, reqs, invCount, lastBuilt, invSince>>
    /\ UNCHANGED notCache

\* requests arrive one per chunk: a sequential series of calls
SeqNext ==
    \/ \E tool \in GraphTools, argPath \in Paths : LineQuery(tool, argPath, 1)
    \/ LineInvalidate(1)
    \/ EndChunk
    \/ \E i \in 1..Len(reqs) : FinishBuild(i)
    \/ NextChunk

\* requests arrive in chunks of any size
StdioNext ==
    \/ \E tool \in GraphTools, argPath \in Paths : LineQuery(tool, argPath, MaxReq)
    \/ LineInvalidate(MaxReq)
    \/ EndChunk
    \/ \E i \in 1..Len(reqs) : FinishBuild(i)
    \/ NextChunk

----------------------------------------------------------------------------
(* filters.js: parseGitignore / shouldExcludeDir / shouldExcludeFile, and  *)
(* findJSFiles of the dead-code detector, which calls them                 *)

NoFile == {"<no .gitignore>"}
Roots == {"rootA", "rootB"}
DirNames == {"lib", "gen", "node_modules"}
FileNames == {"main.js"}
\* patterns are plain names; none is a substring of another entry's path, so
\* matchGitignorePattern reduces to its exact-name test on these inputs
IgnorePatterns == {"lib", "gen"}
DEFAULT_EXCLUDES == {"node_modules"}

DefaultConfig ==
    [excludeDirs |-> DEFAULT_EXCLUDES, useGitignore |-> TRUE, gitignorePatterns |-> {}]

\* if (pattern === name) return true
matchGitignorePattern(pattern, name) == pattern = name

\* parseGitignore(rootDir): the config it leaves behind
parseGitignore(cfg, rootDir) ==
    IF rootIgnore[rootDir] = NoFile THEN cfg                  \* return [] (config untouched)
    ELSE [cfg EXCEPT !.gitignorePatterns = rootIgnore[rootDir]]

shouldExcludeDir(cfg, dirName) ==
    \/ dirName \in cfg.excludeDirs
    \/ /\ cfg.useGitignore
       /\ \E pattern \in cfg.gitignorePatterns : matchGitignorePattern(pattern, dirName)

shouldExcludeFile(cfg, fileName) ==
    /\ cfg.useGitignore
    /\ \E pattern \in cfg.gitignorePatterns : matchGitignorePattern(pattern, fileName)

\* the entries findJSFiles keeps under a configuration
Visible(cfg, root) ==
    {e \in rootEntries[root] :
        IF e \in DirNames THEN ~shouldExcludeDir(cfg, e) ELSE ~shouldExcludeFile(cfg, e)}

FilterInit ==
    /\ config = DefaultConfig
    /\ rootIgnore \in [Roots -> {NoFile} \cup SUBSET IgnorePatterns]
    /\ rootEntries \in [Roots -> {FileNames \cup DirNames, FileNames \cup (DirNames \ {"gen"})}]
    /\ found = [r \in Roots |-> NullRec]

\* findJSFiles(root): if (dir === rootDir) parseGitignore(rootDir); then the walk
FindJSFiles(root) ==
    /\ LET cfg == parseGitignore(config, root)
       IN  /\ config' = cfg
           /\ found' = [found EXCEPT ![root] =
                          [files |-> Visible(cfg, root), useGitignore |-> cfg.useGitignore]]
    /\ UNCHANGED <<rootIgnore, rootEntries>>
    /\ UNCHANGED notFilter

\* setFilters({ useGitignore })
SetFilters(flag) ==
    /\ config' = [config EXCEPT !.useGitignore = flag]
    /\ UNCHANGED <<rootIgnore, rootEntries, found>>
    /\ UNCHANGED notFilter

\* resetFilters()
ResetFilters ==
    /\ config' = DefaultConfig
    /\ UNCHANGED <<rootIgnore, rootEntries, found>>
    /\ UNCHANGED notFilter

FilterNext ==
    \/ \E root \in Roots : FindJSFiles(root)
    \/ \E flag \in BOOLEAN : SetFilters(flag)
    \/ ResetFilters

----------------------------------------------------------------------------
(* custom-rules.js: loadRuleSets / saveRuleSet / setCustomRule /           *)
(* deleteCustomRule.  Each call is synchronous inside one server; two      *)
(* servers that share RULES_DIR interleave at the file operations.         *)
(* writeFileSync truncates the file and then writes it.                    *)

Missing == [tag |-> "missing"]   \* no such file
Partial == [tag |-> "partial"]   \* truncated, not yet written: JSON.parse fails
RuleSetNames == {"s"}
RuleIds == {"r1", "r2"}
RuleBodies == {"x", "y"}
Procs == {"p1", "p2"}

Rule(id, body) == [id |-> id, body |-> body]
RuleSetRecord(name, rules) ==
    [name |-> name, description |-> "d", alwaysApply |-> TRUE, rules |-> rules]

RuleOps ==
    [kind : {"set"}, ruleSet : RuleSetNames, rule : [id : RuleIds, body : RuleBodies]]
    \cup [kind : {"delete"}, ruleSet : RuleSetNames, ruleId : RuleIds]

\* ruleSet.rules.findIndex(r => r.id === id): 0 stands for -1
findIndex(rules, id) ==
    IF \E i \in 1..Len(rules) : rules[i].id = id
    THEN CHOOSE i \in 1..Len(rules) :
            rules[i].id = id /\ \A j \in 1..(i - 1) : rules[j].id # id
    ELSE 0

\* rules.splice(index, 1)
splice1(rules, index) ==
    SubSeq(rules, 1, index - 1) \o SubSeq(rules, index + 1, Len(rules))

\* loadRuleSets(): the records that parse, keyed by name
loadRuleSets(st) == [n \in {m \in DOMAIN st : st[m] \notin {Missing, Partial}} |-> st[n]]

\* the rule always pushed, never replaced
setRuleInAppend(ruleSets, ruleSetName, rule) ==
    LET ruleSet == IF ruleSetName \in DOMAIN ruleSets THEN ruleSets[ruleSetName]
                   ELSE [name |-> ruleSetName, description |-> "Custom rules",
                         rules |-> <<>>]
    IN  [ruleSet EXCEPT !.rules = Append(ruleSet.rules, rule)]

\* setCustomRule after the load: the record it hands to saveRuleSet
setRuleIn(ruleSets, ruleSetName, rule) ==
    LET ruleSet == IF ruleSetName \in DOMAIN ruleSets THEN ruleSets[ruleSetName]
                   ELSE [name |-> ruleSetName, description |-> "Custom rules",
                         rules |-> <<>>]
        existingIndex == findIndex(ruleSet.rules, rule.id)
    IN  IF existingIndex > 0
        THEN [ruleSet EXCEPT !.rules[existingIndex] = rule]
        ELSE [ruleSet EXCEPT !.rules = Append(ruleSet.rules, rule)]

\* deleteCustomRule after the load: the record it saves, or NullRec when it returns
\* { success: false } without writing
deleteRuleIn(ruleSets, ruleSetName, ruleId) ==
    IF ruleSetName \notin DOMAIN ruleSets THEN NullRec
    ELSE LET ruleSet == ruleSets[ruleSetName]
             index == findIndex(ruleSet.rules, ruleId)
         IN  IF index = 0 THEN NullRec
             ELSE [ruleSet EXCEPT !.rules = splice1(ruleSet.rules, index)]

\* the record a call saves given what it loaded (NullRec: nothing is written)
ToSave(ruleSets, op) ==
    IF op.kind = "set" THEN setRuleIn(ruleSets, op.ruleSet, op.rule)
    ELSE deleteRuleIn(ruleSets, op.ruleSet, op.ruleId)

RuleInit ==
    /\ store \in [RuleSetNames ->
                    {Missing, RuleSetRecord("s", <<>>),
                     RuleSetRecord("s", <<Rule("r1", "x")>>),
                     RuleSetRecord("s", <<Rule("r1", "x"), Rule("r2", "x")>>)}]
    /\ store0 = store
    /\ procs \in [Procs -> [pc : {"start"}, op : RuleOps, toSave : {NullRec}, success : {FALSE}]]

\* const ruleSets = loadRuleSets(); ... up to the call of saveRuleSet
LoadAndMutate(p) ==
    /\ procs[p].pc = "start"
    /\ LET rec == ToSave(loadRuleSets(store), procs[p].op)
       IN  procs' = [procs EXCEPT ![p].toSave = rec,
                                  ![p].pc = IF rec = NullRec THEN "done" ELSE "save",
                                  ![p].success = (rec # NullRec)]
    /\ UNCHANGED <<store, store0>>
    /\ UNCHANGED notRule

\* writeFileSync opens the file with O_TRUNC
WriteTruncate(p) ==
    /\ procs[p].pc = "save"
    /\ store' = [store EXCEPT ![procs[p].toSave.name] = Partial]
    /\ procs' = [procs EXCEPT ![p].pc = "write"]
    /\ UNCHANGED store0
    /\ UNCHANGED notRule

\* writeFileSync writes JSON.stringify(ruleSet) and closes
WriteContent(p) ==
    /\ procs[p].pc = "write"
    /\ store' = [store EXCEPT ![procs[p].toSave.name] = procs[p].toSave]
    /\ procs' = [procs EXCEPT ![p].pc = "done"]
    /\ UNCHANGED store0
    /\ UNCHANGED notRule

RuleNext ==
    \E p \in Procs : LoadAndMutate(p) \/ WriteTruncate(p) \/ WriteContent(p)

----------------------------------------------------------------------------
(* dead-code.js: paths.  A path is a sequence of segments; a segment       *)
(* records whether its text ends with '.js'.                               *)

Seg(base, js) == [base |-> base, js |-> js]
Dot == Seg(".", FALSE)
DotDot == Seg("..", FALSE)

PathA == <<Seg("a", TRUE)>>                                        \* a.js
PathB == <<Seg("lib", FALSE), Seg("b", TRUE)>>                     \* lib/b.js
PathC == <<Seg("lib", FALSE), Seg("tests", FALSE), Seg("c", TRUE)>> \* lib/tests/c.js
FilePaths == {PathA, PathB, PathC}
\* scan order of findJSFiles (readdirSync is sorted)
ScanOrder == <<PathA, PathB, PathC>>
ProjectRoot == <<>>                     \* holds package.json
TargetDirs == {<<>>, <<Seg("lib", FALSE)>>}

\* path.dirname
dirname(path) == SubSeq(path, 1, Len(path) - 1)

\* path.resolve(fileDir, source) for a relative source
RECURSIVE Normalize(_, _)
Normalize(done, rest) ==
    IF rest = <<>> THEN done
    ELSE IF Head(rest) = Dot THEN Normalize(done, Tail(rest))
    ELSE IF Head(rest) = DotDot
         THEN Normalize(IF done = <<>> THEN done ELSE dirname(done), Tail(rest))
         ELSE Normalize(Append(done, Head(rest)), Tail(rest))

resolve(fileDir, source) == Normalize(fileDir, source)

\* if (!resolvedSource.endsWith('.js')) resolvedSource += '.js'
withJs(path) ==
    IF path = <<>> \/ path[Len(path)].js THEN path
    ELSE [path EXCEPT ![Len(path)].js = TRUE]

RECURSIVE commonLen(_, _)
commonLen(p, q) ==
    IF p = <<>> \/ q = <<>> \/ Head(p) # Head(q) THEN 0
    ELSE 1 + commonLen(Tail(p), Tail(q))

\* path.relative(from, to)
relative(from, to) ==
    LET k == commonLen(from, to)
    IN  [i \in 1..(Len(from) - k) |-> DotDot] \o SubSeq(to, k + 1, Len(to))

\* the file lies under dir
Under(dir, path) == Len(path) > Len(dir) /\ SubSeq(path, 1, Len(dir)) = dir

\* the segment texts that contain '.test.' (findJSFiles drops *.test.js by default)
DotTestBases == {"b.test"}

\* file.includes('.test.') || file.includes('/tests/'), on the path relative to dir
isTestFile(rel) ==
    \/ \E i \in 1..Len(rel) : rel[i].base \in DotTestBases
    \/ \E i \in 2..(Len(rel) - 1) : rel[i] = Seg("tests", FALSE)

\* name.startsWith('_')
startsWithUnderscore(name) == name \in {"_priv"}

----------------------------------------------------------------------------
(* dead-code.js: what a file holds, as the parser reports it               *)

DeclNames == {"helper", "_priv", "Widget"}

\* funcs, classes: declared names; named: named exports; bare: callees of
\* f() and new F(); member: <<object, method>> of obj.m(); args: identifiers
\* passed as call arguments; imports: [name, source]
Facts(funcs, classes, named, bare, member, args, imports) ==
    [ readable |-> TRUE, parses |-> TRUE, funcs |-> funcs, classes |-> classes,
      named |-> named, bare |-> bare, member |-> member, args |-> args,
      imports |-> imports ]
NoFacts == Facts({}, {}, {}, {}, {}, {}, {})
Unparseable == [NoFacts EXCEPT !.parses = FALSE]
Unreadable == [NoFacts EXCEPT !.readable = FALSE]

Import(name, source) == [name |-> name, source |-> source]

\* what each file may hold
DeclOptions ==
    { <<{}, {}, {}>>, <<{"helper"}, {}, {}>>, <<{"helper"}, {}, {"helper"}>>,
      <<{"_priv"}, {}, {}>>, <<{}, {"Widget"}, {}>>, <<{}, {"Widget"}, {"Widget"}>> }
RefOptions ==
    { <<{}, {}, {}>>, <<{"helper"}, {}, {}>>, <<{}, {<<"Widget", "reg">>}, {}>>,
      <<{}, {<<"obj", "helper">>}, {}>>, <<{}, {<<"list", "map">>}, {"helper"}>> }
ImportsOfA ==
    { {}, {Import("helper", <<Dot, Seg("lib", FALSE), Seg("b", TRUE)>>)},   \* './lib/b.js'
      {Import("helper", <<Dot, Seg("lib", FALSE), Seg("b", FALSE)>>)},      \* './lib/b'
      {Import("Widget", <<Dot, Seg("lib", FALSE), Seg("b", TRUE)>>)},       \* './lib/b.js'
      {Import("helper", <<Dot, Seg("b", TRUE)>>)},                          \* './b.js'
      {Import("helper", <<Seg("lib", FALSE), Seg("b", TRUE)>>)} }           \* 'lib/b.js'
ImportsOfC ==
    { {}, {Import("helper", <<DotDot, Seg("b", TRUE)>>)},                   \* '../b.js'
      {Import("Widget", <<DotDot, Seg("b", FALSE)>>)} }                     \* '../b'

ContentsOfA ==
    { Facts(d[1], d[2], d[3], r[1], r[2], r[3], i) :
        d \in { <<{}, {}, {}>>, <<{"helper"}, {}, {"helper"}>> },
        r \in { <<{}, {}, {}>>, <<{"helper"}, {}, {}>>, <<{"Widget"}, {}, {}>> },
        i \in ImportsOfA }
ContentsOfB ==
    { Facts(d[1], d[2], d[3], r[1], r[2], r[3], {}) : d \in DeclOptions, r \in RefOptions }
    \cup {Unparseable, Unreadable}
ContentsOfC ==
    { Facts(d[1], d[2], d[3], r[1], r[2], r[3], i) :
        d \in { <<{}, {}, {}>>, <<{"helper"}, {}, {}>> },
        r \in { <<{}, {}, {}>>, <<{"helper"}, {}, {}>> },
        i \in ImportsOfC }
    \cup {Unreadable}

----------------------------------------------------------------------------
(* dead-code.js: analyzeFile and getDeadCode                               *)

\* member calls recorded by method name, arguments not recorded
callsOfByMethod(c) ==
    IF ~c.parses THEN {}
    ELSE c.bare \cup {m[2] : m \in c.member}

\* analyzeFile(code).calls: callee names, member-call objects, identifier arguments
callsOf(c) ==
    IF ~c.parses THEN {}
    ELSE c.bare \cup {m[1] : m \in c.member} \cup c.args

exportsOf(c) == IF c.parses THEN c.named ELSE {}
namedExportsOf(c) == IF c.parses THEN c.named ELSE {}
importsOf(c) == IF c.parses THEN c.imports ELSE {}

\* a declaration skipped only when its own file exports it
isExportedOwn(name, ownExports, allExports) == name \in ownExports

\* if (exports.has(name) || allExports.has(name)) return
isExported(name, ownExports, allExports) == name \in ownExports \/ name \in allExports

\* findJSFiles(dir): the files under dir
filesUnder(fs, dir) == {f \in DOMAIN fs : Under(dir, f)}

\* imp.source.startsWith('.')
startsWithDot(source) == source # <<>> /\ Head(source) \in {Dot, DotDot}

\* the project-wide scan: the keys "name@relSource" that have a consumer; a file
\* that cannot be read is skipped (try { readFileSync } catch { continue })
importKeys(fs, dir) ==
    UNION { { <<imp.name, relative(dir, withJs(resolve(dirname(f), imp.source)))>> :
                imp \in {i \in importsOf(fs[f]) : startsWithDot(i.source)} } :
            f \in {g \in filesUnder(fs, ProjectRoot) : fs[g].readable} }

Item(name, type, file) == [name |-> name, type |-> type, file |-> file]

\* walk.simple FunctionDeclaration / ClassDeclaration of one scanned file
deadDeclarations(fs, dir, f, allCalls, allExports) ==
    { Item(n, "function", relative(dir, f)) :
        n \in {m \in fs[f].funcs :
                 /\ ~isExported(m, exportsOf(fs[f]), allExports)
                 /\ m \notin allCalls
                 /\ ~startsWithUnderscore(m)} }
    \cup
    { Item(n, "class", relative(dir, f)) :
        n \in {m \in fs[f].classes :
                 /\ ~isExported(m, exportsOf(fs[f]), allExports)
                 /\ m \notin allCalls} }

\* the orphan exports of one scanned file
deadExports(fs, dir, f, consumers) ==
    { Item(n, "export", relative(dir, f)) :
        n \in {m \in namedExportsOf(fs[f]) :
                 /\ m \notin callsOf(fs[f])                 \* if (calls.has(exp.name)) continue
                 /\ <<m, relative(dir, f)>> \notin consumers} }

\* the items getDeadCode collects once every file of dir was read
deadItems(fs, dir) ==
    LET files == filesUnder(fs, dir)
        allCalls == UNION {callsOf(fs[f]) : f \in files}
        allExports == UNION {exportsOf(fs[f]) : f \in files}
        consumers == importKeys(fs, dir)
        scanned == {f \in files : ~isTestFile(relative(dir, f))}
    IN  UNION { deadDeclarations(fs, dir, f, allCalls, allExports) :
                  f \in {g \in scanned : fs[g].parses} }
        \cup UNION { deadExports(fs, dir, f, consumers) : f \in scanned }

\* getDeadCode(dir): readFileSync of a file of dir is not guarded (line 339)
getDeadCode(fs, dir) ==
    IF \E f \in filesUnder(fs, dir) : ~fs[f].readable
    THEN [thrown |-> TRUE, items |-> {}]
    ELSE [thrown |-> FALSE, items |-> deadItems(fs, dir)]

DeadInit ==
    /\ dcFs \in { [f \in FilePaths |->
                     IF f = PathA THEN a ELSE IF f = PathB THEN b ELSE c] :
                  a \in ContentsOfA, b \in ContentsOfB, c \in ContentsOfC }
    /\ dcDir \in TargetDirs
    /\ dcResult = NullRec

\* the get_dead_code tool
GetDeadCode ==
    /\ dcResult = NullRec
    /\ dcResult' = getDeadCode(dcFs, dcDir)
    /\ UNCHANGED <<dcFs, dcDir>>
    /\ UNCHANGED notDead

DeadNext == GetDeadCode

----------------------------------------------------------------------------
(* graph-builder.js: buildGraph.  Names, codes, calls and edge targets are *)
(* strings (sequences of characters), '.' among them.                      *)

MaxClasses == 2      \* classes in the parsed project
MaxFunctions == 1    \* standalone functions in the parsed project

\* the i-th class is Ab, Abb, ...: every class name derives the base code aA
ClassName(i) == <<"A">> \o [j \in 1..i |-> "b"]
\* the i-th function is aB, aBb, ...
FunctionName(i) == <<"a", "B">> \o [j \in 1..(i - 1) |-> "b"]
MethodBA == <<"b", "A">>
MethodB == <<"b">>

Qualified(owner, method) == owner \o <<".">> \o method

MethodLists == { <<>>, <<MethodBA>>, <<MethodBA, MethodBA>> }
\* calls as extractCalls records them: 'name' or 'qualifier.name'
ClassCallLists ==
    { <<>>, <<MethodBA>>,                                 \* this.bA()
      <<FunctionName(1)>>,                                \* aB()
      <<Qualified(ClassName(1), MethodBA)>>,              \* Ab.bA()
      <<Qualified(ClassName(2), MethodB)>>,               \* Abb.b()
      <<Qualified(MethodBA, MethodB)>>,                   \* this.bA.b()
      <<Qualified(FunctionName(1), MethodB)>> }           \* aB.b()
FunctionCallLists == { <<>>, <<FunctionName(1)>>, <<Qualified(ClassName(1), MethodBA)>> }

\* the lists of k classes and of k functions a parse can give
ClassLists(k) ==
    { [i \in 1..k |-> [ name |-> ClassName(i), methods |-> ms[i],
                        calls |-> cs[i], line |-> 10 * i ]] :
        ms \in [1..k -> MethodLists], cs \in [1..k -> ClassCallLists] }
FunctionLists(k) ==
    { [i \in 1..k |-> [ name |-> FunctionName(i), exported |-> ex[i],
                        calls |-> cs[i] ]] :
        ex \in [1..k -> BOOLEAN], cs \in [1..k -> FunctionCallLists] }

\* [...new Set(list)]: first occurrences, in order
RECURSIVE dedupe(_)
dedupe(list) ==
    IF list = <<>> THEN <<>>
    ELSE LET init == dedupe(SubSeq(list, 1, Len(list) - 1))
             last == list[Len(list)]
         IN  IF \E i \in 1..Len(init) : init[i] = last THEN init ELSE Append(init, last)

RECURSIVE flatten(_)
flatten(lists) == IF lists = <<>> THEN <<>> ELSE Head(lists) \o flatten(Tail(lists))

\* minifyLegend(names) as one call
RECURSIVE minifyFrom(_, _, _, _)
minifyFrom(list, i, leg, usedSet) ==
    IF i > Len(list) THEN leg
    ELSE LET short == ResolveCollision(list[i], usedSet)
         IN  minifyFrom(list, i + 1, MapSet(leg, list[i], short), usedSet \cup {short})

minifyLegend(list) == minifyFrom(list, 1, EmptyMap, {})

\* call.includes('.')
includesDot(call) == \E i \in 1..Len(call) : call[i] = "."

\* call.split('.')[0] and [1] of a call with one dot
firstDot(call) == CHOOSE i \in 1..Len(call) : call[i] = "." /\ \A j \in 1..(i - 1) : call[j] # "."
splitHead(call) == IF includesDot(call) THEN SubSeq(call, 1, firstDot(call) - 1) ELSE call
splitSecond(call) == SubSeq(call, firstDot(call) + 1, Len(call))

\* legend[m] || m
codeOr(leg, m) == IF m \in DOMAIN leg THEN leg[m] ELSE m

\* the edges one class contributes (lines 357-372)
RECURSIVE classEdges(_, _, _, _)
classEdges(leg, shortName, callList, i) ==
    IF i > Len(callList) THEN <<>>
    ELSE LET call == callList[i]
             rest == classEdges(leg, shortName, callList, i + 1)
         IN  IF includesDot(call)
             THEN IF splitHead(call) \in DOMAIN leg
                  THEN << <<shortName, "->",
                            Qualified(leg[splitHead(call)], codeOr(leg, splitSecond(call)))>> >>
                       \o rest
                  ELSE rest
             ELSE IF call \in DOMAIN leg
                  THEN << <<shortName, "->", leg[call]>> >> \o rest
                  ELSE rest

\* the keys of graph.nodes in insertion order: classes, then functions
nodeKeys(leg, p) ==
    dedupe([i \in 1..Len(p.classes) |-> leg[p.classes[i].name]]
           \o [i \in 1..Len(p.functions) |-> leg[p.functions[i].name]])

\* graph.nodes[code]: the node written last under that code
nodeAt(leg, p, code) ==
    IF \E i \in 1..Len(p.functions) : leg[p.functions[i].name] = code
    THEN LET i == CHOOSE i \in 1..Len(p.functions) :
                    /\ leg[p.functions[i].name] = code
                    /\ \A j \in (i + 1)..Len(p.functions) : leg[p.functions[j].name] # code
         IN  [t |-> "F", e |-> p.functions[i].exported, m |-> <<>>]
    ELSE LET i == CHOOSE i \in 1..Len(p.classes) :
                    /\ leg[p.classes[i].name] = code
                    /\ \A j \in (i + 1)..Len(p.classes) : leg[p.classes[j].name] # code
         IN  [t |-> "C", e |-> FALSE,
              m |-> [k \in 1..Len(p.classes[i].methods) |-> codeOr(leg, p.classes[i].methods[k])]]

\* the `cls:line` entries of one method name (lines 399-407)
methodLocations(p, method) ==
    flatten([i \in 1..Len(p.classes) |->
               SelectSeq([k \in 1..Len(p.classes[i].methods) |->
                            IF p.classes[i].methods[k] = method
                            THEN <<p.classes[i].name, p.classes[i].line>> ELSE <<>>],
                         LAMBDA x : x # <<>>)])

\* the orphan test without the exported flag
isOrphanIgnoringExport(nodes, hasIncoming, name) ==
    name \notin hasIncoming /\ nodes[name].t = "F"

\* if (!hasIncoming.has(name) && graph.nodes[name].t === 'F' && !graph.nodes[name].e)
isOrphan(nodes, hasIncoming, name) ==
    name \notin hasIncoming /\ nodes[name].t = "F" /\ ~nodes[name].e

buildGraph(p) ==
    LET allNames == [i \in 1..Len(p.classes) |-> p.classes[i].name]
                    \o [i \in 1..Len(p.functions) |-> p.functions[i].name]
                    \o flatten([i \in 1..Len(p.classes) |-> p.classes[i].methods])
        leg == minifyLegend(dedupe(allNames))
        edges == flatten([i \in 1..Len(p.classes) |->
                            classEdges(leg, leg[p.classes[i].name], p.classes[i].calls, 1)])
        keys == nodeKeys(leg, p)
        nodes == [code \in {keys[i] : i \in 1..Len(keys)} |-> nodeAt(leg, p, code)]
        hasIncoming == {splitHead(edges[i][3]) : i \in 1..Len(edges)}
        reverseLegend == [code \in {leg[n] : n \in DOMAIN leg} |->
                            CHOOSE n \in DOMAIN leg : leg[n] = code]
        orphanKeys == SelectSeq(keys, LAMBDA k : isOrphan(nodes, hasIncoming, k))
        methods == UNION { {p.classes[i].methods[k] : k \in 1..Len(p.classes[i].methods)} :
                           i \in 1..Len(p.classes) }
    IN  [ legend |-> leg,
          reverseLegend |-> reverseLegend,
          nodes |-> nodes,
          edges |-> edges,
          orphans |-> [i \in 1..Len(orphanKeys) |-> reverseLegend[orphanKeys[i]]],
          duplicates |-> [m \in {x \in methods : Len(methodLocations(p, x)) > 1} |->
                            methodLocations(p, m)] ]

GraphInit ==
    /\ \E k \in 0..MaxClasses, n \in 0..MaxFunctions :
          parsed \in [classes : ClassLists(k), functions : FunctionLists(n)]
    /\ graph = NullRec

\* buildGraph(parsed)
BuildGraph ==
    /\ graph = NullRec
    /\ graph' = buildGraph(parsed)
    /\ UNCHANGED parsed
    /\ UNCHANGED notGraph

GraphNext == BuildGraph

----------------------------------------------------------------------------
(* custom-rules.js: isInStringOrComment and checkFileAgainstRule.  A line  *)
(* is a sequence of characters; positions are 1-based, 0 stands for -1.    *)

MaxLineLen == 4      \* longest line of a checked file

LineChars == {"a", "\"", "/", "\\"}
Lines(n) == UNION {[1..k -> LineChars] : k \in 0..n}
\* char === '"' || char === "'" (the backtick, a third quote, is treated alike)
Quotes == {"\"", "'"}
\* rules without exclude and contextRequired; the regex source is a plain text
CheckRules == [patternType : {"literal", "regex"}, pattern : {<<"a">>}]

occursAt(text, pattern, p) ==
    /\ p + Len(pattern) - 1 <= Len(text)
    /\ SubSeq(text, p, p + Len(pattern) - 1) = pattern

\* line.indexOf(pattern), searching from position from
indexOfFrom(text, pattern, from) ==
    LET hits == {p \in from..Len(text) : occursAt(text, pattern, p)}
    IN  IF hits = {} THEN 0 ELSE CHOOSE p \in hits : \A q \in hits : p <= q

\* for (let i = 0; i < matchIndex; i++) { ... } return inString
RECURSIVE scanString(_, _, _, _, _)
scanString(text, i, matchIndex, inString, stringChar) ==
    IF i >= matchIndex THEN inString
    ELSE LET char == text[i]
             prevChar == IF i > 1 THEN text[i - 1] ELSE ""
         IN  IF ~inString /\ char \in Quotes
             THEN scanString(text, i + 1, matchIndex, TRUE, char)
             ELSE IF inString /\ char = stringChar /\ prevChar # "\\"
                  THEN scanString(text, i + 1, matchIndex, FALSE, "")
                  ELSE scanString(text, i + 1, matchIndex, inString, stringChar)

isInStringOrComment(text, matchIndex) ==
    LET commentIndex == indexOfFrom(text, <<"/", "/">>, 1)
    IN  IF commentIndex # 0 /\ matchIndex > commentIndex THEN TRUE
        ELSE scanString(text, 1, matchIndex, FALSE, "")

\* while ((match = regex.exec(line)) !== null): the first match that is kept
RECURSIVE regexLiveMatch(_, _, _)
regexLiveMatch(text, pattern, from) ==
    LET index == indexOfFrom(text, pattern, from)
    IN  IF index = 0 THEN 0
        ELSE IF ~isInStringOrComment(text, index) THEN index
        ELSE regexLiveMatch(text, pattern, index + Len(pattern))

\* const matchIndex = line.indexOf(rule.pattern): the first occurrence only
literalLiveMatch(text, pattern) ==
    LET matchIndex == indexOfFrom(text, pattern, 1)
    IN  IF matchIndex # 0 /\ ~isInStringOrComment(text, matchIndex) THEN matchIndex ELSE 0

\* matches, for one line
lineMatches(rule, text) ==
    IF rule.patternType = "regex" THEN regexLiveMatch(text, rule.pattern, 1) # 0
    ELSE literalLiveMatch(text, rule.pattern) # 0

CheckInit ==
    /\ ckRule \in CheckRules
    /\ ckLine \in Lines(MaxLineLen)
    /\ ckLineNo = 1
    /\ ckPc = "check"
    /\ ckViolations = {}

CheckIdle ==
    /\ ckRule = [patternType |-> "literal", pattern |-> <<"a">>]
    /\ ckLine = <<>>
    /\ ckLineNo = 1
    /\ ckPc = "check"
    /\ ckViolations = {}

\* the body of for (let i = 0; i < lines.length; i++) for one line
CheckLine ==
    /\ ckPc = "check"
    /\ ckViolations' =
          IF lineMatches(ckRule, ckLine)
          THEN ckViolations \cup {[line |-> ckLineNo, match |-> ckRule.pattern]}
          ELSE ckViolations
    /\ ckPc' = "next"
    /\ UNCHANGED <<ckRule, ckLine, ckLineNo>>
    /\ UNCHANGED notCheck

\* i++ : the file has a second line
CheckNextLine ==
    /\ ckPc = "next"
    /\ ckLineNo < 2
    /\ ckLine' \in Lines(MaxLineLen)
    /\ ckLineNo' = ckLineNo + 1
    /\ ckPc' = "check"
    /\ UNCHANGED <<ckRule, ckViolations>>
    /\ UNCHANGED notCheck

\* return violations
CheckReturn ==
    /\ ckPc = "next"
    /\ ckPc' = "done"
    /\ UNCHANGED <<ckRule, ckLine, ckLineNo, ckViolations>>
    /\ UNCHANGED notCheck

CheckNext == CheckLine \/ CheckNextLine \/ CheckReturn

----------------------------------------------------------------------------
(* custom-rules.js: checkCustomRules from the collected rules on: check    *)
(* every file against every rule, dedup, severity filter, sort, count.     *)

MaxRules == 2        \* rules collected from the rule sets

CheckedFiles == <<"f", "g">>          \* findFiles(dir, '*.js'), in order
Severities == <<"error", "warning", "info">>    \* severityOrder
\* the places where a rule's pattern may match: <<file, line>>
MatchPlaces == {<<"f", 1>>, <<"f", 2>>, <<"g", 1>>}
CollectedRules(n) ==
    [1..n -> [severity : {"error", "warning"}, pattern : {<<"a">>, <<"b">>},
              places : SUBSET MatchPlaces]]

\* the set as a sequence in increasing order
RECURSIVE sorted(_)
sorted(set) ==
    IF set = {} THEN <<>>
    ELSE LET least == CHOOSE x \in set : \A y \in set : x <= y
         IN  <<least>> \o sorted(set \ {least})

\* checkFileAgainstRule(file, rule): one violation per matching line, in line order
violationsOf(rules, r, file) ==
    LET matching == sorted({pl[2] : pl \in {q \in rules[r].places : q[1] = file}})
    IN  [k \in 1..Len(matching) |->
            [ruleId |-> r, severity |-> rules[r].severity, file |-> file,
             line |-> matching[k], match |-> rules[r].pattern]]

\* for (const file of files) for (const rule of rules) allViolations.push(...)
allViolations(rules) ==
    flatten([f \in 1..Len(CheckedFiles) |->
               flatten([r \in 1..Len(rules) |-> violationsOf(rules, r, CheckedFiles[f])])])

\* `${v.file}:${v.line}:${v.match}`
keyOf(v) == <<v.file>> \o <<":">> \o NumToStr(v.line) \o <<":">> \o v.match

\* allViolations.filter(v => { if (seen.has(key)) return false; seen.add(key); return true })
RECURSIVE dedupFrom(_, _, _)
dedupFrom(list, i, seen) ==
    IF i > Len(list) THEN <<>>
    ELSE IF keyOf(list[i]) \in seen THEN dedupFrom(list, i + 1, seen)
    ELSE <<list[i]>> \o dedupFrom(list, i + 1, seen \cup {keyOf(list[i])})

\* if (options.severity) filtered = deduped.filter(v => v.severity === options.severity)
severityFilter(list, severity) ==
    IF severity = Null THEN list
    ELSE SelectSeq(list, LAMBDA v : v.severity = severity)

\* filtered.sort(by severityOrder, then file): a stable sort
sortViolations(list) ==
    flatten([sv \in 1..Len(Severities) |->
               flatten([f \in 1..Len(CheckedFiles) |->
                          SelectSeq(list, LAMBDA v :
                              v.severity = Severities[sv] /\ v.file = CheckedFiles[f])])])

checkCustomRules(rules, severity) ==
    LET deduped == dedupFrom(allViolations(rules), 1, {})
        filtered == sortViolations(severityFilter(deduped, severity))
    IN  [ total |-> Len(filtered),
          bySeverity |-> [sv \in {"error", "warning", "info"} |->
                            Len(SelectSeq(filtered, LAMBDA v : v.severity = sv))],
          violations |-> filtered ]   \* slice(0, 50): the menus stay below 50

DedupInit ==
    /\ \E n \in 0..MaxRules : crRules \in CollectedRules(n)
    /\ crSeverity \in {Null, "error", "warning"}
    /\ crResult = NullRec

DedupIdle ==
    /\ crRules = <<>>
    /\ crSeverity = Null
    /\ crResult = NullRec

\* the check_custom_rules tool
CheckCustomRules ==
    /\ crResult = NullRec
    /\ crResult' = checkCustomRules(crRules, crSeverity)
    /\ UNCHANGED <<crRules, crSeverity>>
    /\ UNCHANGED notDedup

DedupNext == CheckCustomRules

----------------------------------------------------------------------------
(* full-analysis.js: calculateHealthScore over the counts of the results.  *)

MaxCount == 31       \* largest count in a scorer result

Signals ==
    { "deadCode.total", "undocumented.total", "similar.total",
      "complexity.stats.critical", "complexity.stats.high",
      "largeFiles.stats.critical", "largeFiles.stats.warning",
      "outdated.stats.bySeverity.error", "outdated.stats.bySeverity.warning",
      "outdated.redundantDeps.length" }
NoFindings == [s \in Signals |-> 0]
\* results with at most two non-zero counts, and results in which any set
\* of signals has one and the same count, 11 or the largest
ResultCounts(max) ==
    { [NoFindings EXCEPT ![s] = n, ![t] = m] :
        s \in Signals, t \in Signals, n \in 0..max, m \in 1..max }
    \cup { [s \in Signals |-> IF s \in S THEN n ELSE 0] :
             S \in SUBSET Signals, n \in {11, max} }
    \cup {NoFindings}

\* Math.round of a non-negative number of halves
roundHalves(h) == (h + 1) \div 2

\* the bands read with strict comparisons
getHealthRatingStrict(score) ==
    IF score > 90 THEN "excellent"
    ELSE IF score > 70 THEN "good"
    ELSE IF score > 50 THEN "warning"
    ELSE "critical"

getHealthRating(score) ==
    IF score >= 90 THEN "excellent"
    ELSE IF score >= 70 THEN "good"
    ELSE IF score >= 50 THEN "warning"
    ELSE "critical"

issueIf(cond, n, what) == IF cond THEN <<[n |-> n, what |-> what]>> ELSE <<>>

\* the penalties, counted in halves of a point (undocumented costs 0.5 each)
calculateHealthScore(results) ==
    LET deadPenalty == 2 * Min(results["deadCode.total"] * 2, 20)
        undocPenalty == Min(results["undocumented.total"], 30)
        similarPenalty == 2 * Min(results["similar.total"] * 3, 15)
        criticalCount == results["complexity.stats.critical"]
        highCount == results["complexity.stats.high"]
        complexityPenalty == 2 * Min(criticalCount * 5 + highCount * 2, 20)
        largeCritical == results["largeFiles.stats.critical"]
        largeWarning == results["largeFiles.stats.warning"]
        largePenalty == 2 * Min(largeCritical * 4 + largeWarning * 1, 10)
        errorPatterns == results["outdated.stats.bySeverity.error"]
        warningPatterns == results["outdated.stats.bySeverity.warning"]
        outdatedPenalty == 2 * Min(errorPatterns * 3 + warningPatterns * 1, 10)
        halves == 200 - deadPenalty - undocPenalty - similarPenalty
                      - complexityPenalty - largePenalty - outdatedPenalty
        rounded == roundHalves(halves)
        score == IF rounded > 100 THEN 100 ELSE IF rounded < 0 THEN 0 ELSE rounded
        topIssues ==
            issueIf(results["deadCode.total"] > 0, results["deadCode.total"],
                    "unused functions/classes")
            \o issueIf(results["undocumented.total"] > 10, results["undocumented.total"],
                       "undocumented items")
            \o issueIf(results["similar.total"] > 0, results["similar.total"],
                       "similar function pairs")
            \o issueIf(criticalCount > 0, criticalCount, "critical complexity functions")
            \o issueIf(largeCritical > 0, largeCritical, "files need splitting")
            \o issueIf(results["outdated.redundantDeps.length"] > 0,
                       results["outdated.redundantDeps.length"],
                       "redundant npm dependencies")
    IN  [ score |-> score, rating |-> getHealthRating(score),
          topIssues |-> SubSeq(topIssues, 1, Min(5, Len(topIssues))) ]

HealthInit ==
    /\ hsResults \in ResultCounts(MaxCount)
    /\ hsOverall = NullRec

HealthIdle ==
    /\ hsResults = NoFindings
    /\ hsOverall = NullRec

\* getFullAnalysis composing the overall health of the six results
CalculateHealthScore ==
    /\ hsOverall = NullRec
    /\ hsOverall' = calculateHealthScore(hsResults)
    /\ UNCHANGED hsResults
    /\ UNCHANGED notHealth

HealthNext == CalculateHealthScore

----------------------------------------------------------------------------
(* full-analysis.js: getFullAnalysis.  The array handed to Promise.all is  *)
(* built left to right; no scorer awaits anything, so each call runs to    *)
(* its end before the next one starts.  An async scorer that throws gives  *)
(* a rejected promise; getUndocumentedSummary is not async and throws into *)
(* getFullAnalysis itself.                                                 *)

Scorers ==
    << "getDeadCode", "getUndocumentedSummary", "getSimilarFunctions",
       "getComplexity", "getLargeFiles", "getOutdatedPatterns" >>
AsyncScorers == {1, 3, 4, 5, 6}
\* the count a scorer's result contributes
SignalOf ==
    << "deadCode.total", "undocumented.total", "similar.total",
       "complexity.stats.high", "largeFiles.stats.warning",
       "outdated.stats.bySeverity.warning" >>
ScorerTotals == {0, 1}
Pending == "pending"
Fulfilled == "fulfilled"
Rejected == "rejected"

Promise(state, total) == [state |-> state, total |-> total]

FullInit ==
    /\ faPc = "call"
    /\ faNext = 1
    /\ faStarted = [i \in 1..Len(Scorers) |-> 0]
    /\ faSettled = [i \in 1..Len(Scorers) |-> Promise(Pending, 0)]
    /\ faOverall = NullRec

FullIdle ==
    /\ faPc = "idle"
    /\ faNext = 1
    /\ faStarted = [i \in 1..Len(Scorers) |-> 0]
    /\ faSettled = [i \in 1..Len(Scorers) |-> Promise(Pending, 0)]
    /\ faOverall = NullRec

\* an async scorer is called: its promise is fulfilled, or rejected when it throws
CallAsyncScorer ==
    /\ faPc = "call" /\ faNext \in AsyncScorers
    /\ faStarted' = [faStarted EXCEPT ![faNext] = @ + 1]
    /\ \E outcome \in {Promise(Fulfilled, t) : t \in ScorerTotals} \cup {Promise(Rejected, 0)} :
          faSettled' = [faSettled EXCEPT ![faNext] = outcome]
    /\ faNext' = faNext + 1
    /\ faPc' = IF faNext = Len(Scorers) THEN "await" ELSE "call"
    /\ UNCHANGED faOverall
    /\ UNCHANGED notFull

\* getUndocumentedSummary(dir, 'tests') returns its summary
CallSyncScorer ==
    /\ faPc = "call" /\ faNext \in (1..Len(Scorers)) \ AsyncScorers
    /\ faStarted' = [faStarted EXCEPT ![faNext] = @ + 1]
    /\ \E t \in ScorerTotals : faSettled' = [faSettled EXCEPT ![faNext] = Promise(Fulfilled, t)]
    /\ faNext' = faNext + 1
    /\ faPc' = IF faNext = Len(Scorers) THEN "await" ELSE "call"
    /\ UNCHANGED faOverall
    /\ UNCHANGED notFull

\* getUndocumentedSummary throws (readFileSync in getUndocumented): the
\* exception leaves getFullAnalysis before the array is complete
SyncScorerThrows ==
    /\ faPc = "call" /\ faNext \in (1..Len(Scorers)) \ AsyncScorers
    /\ faStarted' = [faStarted EXCEPT ![faNext] = @ + 1]
    /\ faPc' = "raised"
    /\ UNCHANGED <<faNext, faSettled, faOverall>>
    /\ UNCHANGED notFull

\* await Promise.all([...]) with every promise fulfilled
AwaitAll ==
    /\ faPc = "await"
    /\ \A i \in 1..Len(Scorers) : faSettled[i].state = Fulfilled
    /\ faPc' = "score"
    /\ UNCHANGED <<faNext, faStarted, faSettled, faOverall>>
    /\ UNCHANGED notFull

\* await Promise.all([...]) with a rejected promise
AwaitRejects ==
    /\ faPc = "await"
    /\ \E i \in 1..Len(Scorers) : faSettled[i].state = Rejected
    /\ faPc' = "raised"
    /\ UNCHANGED <<faNext, faStarted, faSettled, faOverall>>
    /\ UNCHANGED notFull

\* const overall = calculateHealthScore({...}); build and return the result
ComposeOverall ==
    /\ faPc = "score"
    /\ faOverall' = calculateHealthScore(
          [s \in Signals |->
              IF \E i \in 1..Len(Scorers) : SignalOf[i] = s
              THEN faSettled[CHOOSE i \in 1..Len(Scorers) : SignalOf[i] = s].total
              ELSE 0])
    /\ faPc' = "done"
    /\ UNCHANGED <<faNext, faStarted, faSettled>>
    /\ UNCHANGED notFull

FullNext ==
    \/ CallAsyncScorer
    \/ CallSyncScorer
    \/ SyncScorerThrows
    \/ AwaitAll
    \/ AwaitRejects
    \/ ComposeOverall

----------------------------------------------------------------------------
(* similar-functions.js: calculateSimilarity and getSimilarFunctions over  *)
(* two collected signatures.                                               *)

MaxParams == 2       \* parameters of a function

DefaultThreshold == 60
ParamNames == {"x", "y"}
ParamLists(n) == UNION { [1..k -> ParamNames] : k \in 0..n }
\* structure.join('|') kept as its token sequence
TokenIF == <<"I", "F">>
TokenRET == <<"R", "E", "T">>
TokenFOR == <<"F", "O", "R">>
BodyHashes ==
    { <<>>, <<TokenIF>>, <<TokenRET>>, <<TokenFOR, TokenIF>> }
CallSets == SUBSET {"f", "g"}
Signatures(n) ==
    [ name : {"f"}, file : {"a.js", "b.js"}, paramNames : ParamLists(n),
      async : BOOLEAN, bodyHash : BodyHashes, calls : CallSets ]

\* a.paramCount: node.params.length
paramCount(sig) == Len(sig.paramNames)

\* bodyHash.length: the characters of the joined string
RECURSIVE hashLength(_)
hashLength(tokens) ==
    IF tokens = <<>> THEN 0
    ELSE IF Len(tokens) = 1 THEN Len(tokens[1])
    ELSE Len(tokens[1]) + 1 + hashLength(Tail(tokens))

\* xs.filter(x => ys.includes(x)).length
commonCount(xs, ys) ==
    Cardinality({i \in 1..Len(xs) : \E j \in 1..Len(ys) : ys[j] = xs[i]})

\* Math.round(c / m * weight), halves rounded up
roundRatio(c, m, weight) == (2 * weight * c + m) \div (2 * m)

Max(a, b) == IF a > b THEN a ELSE b

paramScore(a, b) ==
    LET common == commonCount(a.paramNames, b.paramNames)
    IN  IF common > 0 /\ Len(a.paramNames) > 0
        THEN roundRatio(common, Max(Len(a.paramNames), Len(b.paramNames)), 20)
        ELSE 0

structureScore(a, b) ==
    IF a.bodyHash = b.bodyHash /\ hashLength(a.bodyHash) > 0 THEN 25
    ELSE IF hashLength(a.bodyHash) > 0 /\ hashLength(b.bodyHash) > 0
    THEN LET common == commonCount(a.bodyHash, b.bodyHash)
         IN  IF common > 0
             THEN roundRatio(common, Max(Len(a.bodyHash), Len(b.bodyHash)), 25)
             ELSE 0
    ELSE 0

\* the calls counted as if both functions always called the same things
callScoreFull(a, b) == 15

callScore(a, b) ==
    LET common == Cardinality(a.calls \cap b.calls)
    IN  IF common > 0 /\ Cardinality(a.calls) > 0 /\ Cardinality(b.calls) > 0
        THEN roundRatio(common, Max(Cardinality(a.calls), Cardinality(b.calls)), 15)
        ELSE 0

similarityReasons(a, b) ==
    (IF paramCount(a) = paramCount(b) THEN <<"Same param count">> ELSE <<>>)
    \o (IF /\ commonCount(a.paramNames, b.paramNames) > 0
           /\ Len(a.paramNames) > 0
           /\ 2 * commonCount(a.paramNames, b.paramNames)
                >= Max(Len(a.paramNames), Len(b.paramNames))
        THEN <<"Similar params">> ELSE <<>>)
    \o (IF a.bodyHash = b.bodyHash /\ hashLength(a.bodyHash) > 0
        THEN <<"Identical structure">>
        ELSE IF /\ hashLength(a.bodyHash) > 0 /\ hashLength(b.bodyHash) > 0
                /\ commonCount(a.bodyHash, b.bodyHash) > 0
                /\ 2 * commonCount(a.bodyHash, b.bodyHash)
                     >= Max(Len(a.bodyHash), Len(b.bodyHash))
        THEN <<"Similar control flow">> ELSE <<>>)
    \o (IF /\ Cardinality(a.calls \cap b.calls) >= 2
        THEN <<"Common calls">> ELSE <<>>)

calculateSimilarity(a, b) ==
    LET maxScore == 30 + 20 + 10 + 25 + 15
        score == (IF paramCount(a) = paramCount(b) THEN 30 ELSE 0)
                 + paramScore(a, b)
                 + (IF a.async = b.async THEN 10 ELSE 0)
                 + structureScore(a, b)
                 + callScore(a, b)
    IN  [ similarity |-> roundRatio(score, maxScore, 100),
          reasons |-> similarityReasons(a, b) ]

\* the pair is skipped before it is compared
skipped(a, b) ==
    \/ a.file = b.file /\ a.name = b.name
    \/ hashLength(a.bodyHash) < 3 /\ hashLength(b.bodyHash) < 3

getSimilarFunctions(a, b, threshold) ==
    LET result == calculateSimilarity(a, b)
        pairs == IF /\ ~skipped(a, b)
                    /\ result.similarity >= threshold
                    /\ Len(result.reasons) > 0
                 THEN <<[a |-> a, b |-> b, similarity |-> result.similarity,
                         reasons |-> result.reasons]>>
                 ELSE <<>>
    IN  [total |-> Len(pairs), pairs |-> pairs]

SimilarInit ==
    /\ sfA \in Signatures(MaxParams)
    /\ sfB \in Signatures(MaxParams)
    /\ sfA.file = "a.js"
    /\ sfResult = NullRec

NoSignature ==
    [ name |-> "f", file |-> "a.js", paramNames |-> <<>>, async |-> FALSE,
      bodyHash |-> <<>>, calls |-> {} ]

SimilarIdle ==
    /\ sfA = NoSignature
    /\ sfB = NoSignature
    /\ sfResult = NullRec

\* the get_similar_functions tool without a threshold option
GetSimilarFunctions ==
    /\ sfResult = NullRec
    /\ sfResult' = getSimilarFunctions(sfA, sfB, DefaultThreshold)
    /\ UNCHANGED <<sfA, sfB>>
    /\ UNCHANGED notSimilar

SimilarNext == GetSimilarFunctions

----------------------------------------------------------------------------
(* complexity.js: calculateComplexity and getRating over one function      *)
(* body.  A body is the sequence of its constructs; the parser turns each  *)
(* into one syntax-tree node, and walk.simple calls the visitor registered *)
(* for the node's type once per node.                                      *)

MaxRepeat == 11      \* occurrences of one construct in a body

Constructs ==
    { "if", "?:", "for", "for-of", "for-in", "while", "do-while", "case",
      "default", "&&", "||", "??", "catch", "+", "return" }
RECURSIVE Repeat(_, _)
Repeat(c, n) == IF n = 0 THEN <<>> ELSE <<c>> \o Repeat(c, n - 1)
\* bodies made of at most two kinds of construct
Bodies(max) ==
    { Repeat(c, n) \o Repeat(d, m) :
        c \in Constructs, d \in Constructs, n \in 0..max, m \in 0..max }

Node(type, operator, test) == [type |-> type, operator |-> operator, test |-> test]

\* the syntax-tree node of a construct: the three short-circuit operators
\* are LogicalExpression nodes, the arithmetic ones BinaryExpression nodes
parseConstruct(c) ==
    CASE c = "if"       -> Node("IfStatement", "", TRUE)
      [] c = "?:"       -> Node("ConditionalExpression", "", TRUE)
      [] c = "for"      -> Node("ForStatement", "", TRUE)
      [] c = "for-of"   -> Node("ForOfStatement", "", TRUE)
      [] c = "for-in"   -> Node("ForInStatement", "", TRUE)
      [] c = "while"    -> Node("WhileStatement", "", TRUE)
      [] c = "do-while" -> Node("DoWhileStatement", "", TRUE)
      [] c = "case"     -> Node("SwitchCase", "", TRUE)
      [] c = "default"  -> Node("SwitchCase", "", FALSE)
      [] c = "&&"       -> Node("LogicalExpression", "&&", TRUE)
      [] c = "||"       -> Node("LogicalExpression", "||", TRUE)
      [] c = "??"       -> Node("LogicalExpression", "??", TRUE)
      [] c = "catch"    -> Node("CatchClause", "", TRUE)
      [] c = "+"        -> Node("BinaryExpression", "+", TRUE)
      [] OTHER          -> Node("ReturnStatement", "", TRUE)

\* what the visitor of the node's type adds
visit(node) ==
    CASE node.type \in { "IfStatement", "ConditionalExpression", "ForStatement",
                         "ForOfStatement", "ForInStatement", "WhileStatement",
                         "DoWhileStatement", "CatchClause" } -> 1
      [] node.type = "SwitchCase" -> IF node.test THEN 1 ELSE 0
      [] node.type = "LogicalExpression" ->
            IF node.operator = "&&" \/ node.operator = "||" THEN 1 ELSE 0
      [] node.type = "BinaryExpression" -> IF node.operator = "??" THEN 1 ELSE 0
      [] OTHER -> 0

RECURSIVE walkSimple(_, _)
walkSimple(nodes, complexity) ==
    IF nodes = <<>> THEN complexity
    ELSE walkSimple(Tail(nodes), complexity + visit(Head(nodes)))

calculateComplexity(body) ==
    walkSimple([i \in 1..Len(body) |-> parseConstruct(body[i])], 1)

getRating(complexity) ==
    IF complexity <= 5 THEN "low"
    ELSE IF complexity <= 10 THEN "moderate"
    ELSE IF complexity <= 20 THEN "high"
    ELSE "critical"

ComplexityInit ==
    /\ cxBody \in Bodies(MaxRepeat)
    /\ cxItem = NullRec

ComplexityIdle ==
    /\ cxBody = <<>>
    /\ cxItem = NullRec

\* analyzeFile visiting one FunctionDeclaration or method
AnalyzeFunction ==
    /\ cxItem = NullRec
    /\ cxItem' = [ complexity |-> calculateComplexity(cxBody),
                   rating |-> getRating(calculateComplexity(cxBody)) ]
    /\ UNCHANGED cxBody
    /\ UNCHANGED notComplexity

ComplexityNext == AnalyzeFunction

----------------------------------------------------------------------------
(* tools.js: expand, deps and usages on the cached graph                   *)

\* classes with one method each; only the calls vary
ToolClassLists(k) ==
    { [i \in 1..k |-> [ name |-> ClassName(i), methods |-> <<MethodBA>>,
                        calls |-> cs[i], line |-> 10 * i ]] :
        cs \in [1..k -> ClassCallLists] }
ToolFunctionLists(k) ==
    { [i \in 1..k |-> [ name |-> FunctionName(i), exported |-> FALSE, calls |-> <<>> ]] }

\* a property every plain object inherits from Object.prototype
Constructor == <<"constructor">>
ObjectPrototypeKeys == {Constructor}

\* the symbols handed to the tools: the codes of Ab, Abb, aB and bA, a
\* qualified code, a code of no legend, an inherited property name
ToolSymbols ==
    { <<"a", "A">>, <<"a", "A", "1">>, <<"a", "B">>, <<"b", "A">>,
      Qualified(<<"a", "A">>, <<"b", "A">>), <<"z", "Z">>, Constructor }

\* s.startsWith(prefix)
startsWith(s, prefix) ==
    Len(prefix) <= Len(s) /\ SubSeq(s, 1, Len(prefix)) = prefix

\* s.includes(part)
includes(s, part) ==
    \E i \in 0..(Len(s) - Len(part)) : SubSeq(s, i + 1, i + Len(part)) = part

\* a lookup obj[key] on a plain object gives a truthy value
truthyAt(obj, key) == key \in DOMAIN obj \/ key \in ObjectPrototypeKeys

ErrorPayload(message, symbol) == [kind |-> "error", error |-> message, symbol |-> symbol]

\* getGraph(cachedPath || 'src/components'): the cached graph, or a new one
getGraph(cached, project) == IF cached # NullRec THEN cached ELSE buildGraph(project)

\* edges.filter(e => e[2].startsWith(symbol)).map(e => e[0])
usedByOf(g, symbol) ==
    LET hits == SelectSeq(g.edges, LAMBDA e : startsWith(e[3], symbol))
    IN  [i \in 1..Len(hits) |-> hits[i][1]]

\* edges.filter(e => e[0] === symbol).map(e => e[2])
callsFrom(g, symbol) ==
    LET hits == SelectSeq(g.edges, LAMBDA e : e[1] = symbol)
    IN  [i \in 1..Len(hits) |-> hits[i][3]]

\* deps(symbol) on graph g; an inherited property has no field i
deps(g, symbol) ==
    IF ~truthyAt(g.nodes, symbol)
    THEN ErrorPayload("Unknown symbol", symbol)
    ELSE [ kind |-> "deps", symbol |-> symbol, imports |-> <<>>,
           usedBy |-> dedupe(usedByOf(g, symbol)),
           calls |-> dedupe(callsFrom(g, symbol)) ]

\* usages(symbol): the classes of the parsed project whose calls hold fullName
usages(g, project, symbol) ==
    LET known == symbol \in DOMAIN g.reverseLegend
        fullName == IF known THEN g.reverseLegend[symbol] ELSE symbol
        \* an inherited property is a function: no call equals or includes it
        matches(cls) ==
            /\ symbol \notin ObjectPrototypeKeys \/ known
            /\ \E i \in 1..Len(cls.calls) : includes(cls.calls[i], fullName)
        hits == SelectSeq(project.classes, matches)
    IN  [ kind |-> "usages",
          results |-> [i \in 1..Len(hits) |->
                         [line |-> hits[i].line, caller |-> hits[i].name, callee |-> fullName]] ]

\* expand(symbol)
expand(g, project, symbol) ==
    LET nodeKey == splitHead(symbol)
    IN  IF ~truthyAt(g.reverseLegend, nodeKey)
        THEN ErrorPayload("Unknown symbol", symbol)
        ELSE IF \/ nodeKey \notin DOMAIN g.reverseLegend
                \/ ~\E i \in 1..Len(project.classes) :
                      project.classes[i].name = g.reverseLegend[nodeKey]
             THEN ErrorPayload("Class not found", symbol)
             ELSE LET fullName == g.reverseLegend[nodeKey]
                      cls == project.classes[CHOOSE i \in 1..Len(project.classes) :
                                               project.classes[i].name = fullName]
                  IN  IF includesDot(symbol)
                      THEN LET methodKey == splitSecond(symbol)
                               methodName == IF methodKey \in DOMAIN g.reverseLegend
                                             THEN g.reverseLegend[methodKey] ELSE methodKey
                           IN  [ kind |-> "method", symbol |-> symbol,
                                 fullName |-> Qualified(fullName, methodName),
                                 line |-> cls.line ]
                      ELSE [ kind |-> "class", symbol |-> symbol, fullName |-> fullName,
                             line |-> cls.line, methods |-> cls.methods,
                             calls |-> cls.calls ]

ToolInit ==
    /\ \E k \in 0..MaxClasses, n \in 0..MaxFunctions :
          tlProject \in [classes : ToolClassLists(k), functions : ToolFunctionLists(n)]
    /\ tlCached \in {NullRec, buildGraph(tlProject)}
    /\ tlCached0 = tlCached
    /\ tlCall = NullRec
    /\ tlResult = NullRec

ToolIdle ==
    /\ tlProject = NullRec
    /\ tlCached = NullRec
    /\ tlCached0 = NullRec
    /\ tlCall = NullRec
    /\ tlResult = NullRec

\* each tool calls getGraph first, which fills the cache when it is empty
Expand(symbol) ==
    /\ tlCall = NullRec
    /\ tlCall' = [tool |-> "expand", symbol |-> symbol]
    /\ tlCached' = getGraph(tlCached, tlProject)
    /\ tlResult' = expand(getGraph(tlCached, tlProject), tlProject, symbol)
    /\ UNCHANGED <<tlProject, tlCached0>>
    /\ UNCHANGED notTool

Deps(symbol) ==
    /\ tlCall = NullRec
    /\ tlCall' = [tool |-> "deps", symbol |-> symbol]
    /\ tlCached' = getGraph(tlCached, tlProject)
    /\ tlResult' = deps(getGraph(tlCached, tlProject), symbol)
    /\ UNCHANGED <<tlProject, tlCached0>>
    /\ UNCHANGED notTool

Usages(symbol) ==
    /\ tlCall = NullRec
    /\ tlCall' = [tool |-> "usages", symbol |-> symbol]
    /\ tlCached' = getGraph(tlCached, tlProject)
    /\ tlResult' = usages(getGraph(tlCached, tlProject), tlProject, symbol)
    /\ UNCHANGED <<tlProject, tlCached0>>
    /\ UNCHANGED notTool

ToolNext ==
    \/ \E symbol \in ToolSymbols : Expand(symbol)
    \/ \E symbol \in ToolSymbols : Deps(symbol)
    \/ \E symbol \in ToolSymbols : Usages(symbol)

----------------------------------------------------------------------------
(* test-annotations.js: the test checklist and its in-memory state         *)

MaxFeatures == 2     \* annotated methods found in the directory
MaxCalls == 3        \* mark and reset calls per run

\* the method names after the annotated blocks, and @test lines per block
AnnotatedMethods == { <<"a">>, <<"b">> }
TestCounts == {1, 2}

\* getAllFeatures(dir): one feature per annotated block, in file order; two
\* blocks may precede methods of the same name
FeatureLists(k) ==
    { [i \in 1..k |-> [name |-> nm[i], file |-> i, tests |-> tc[i]]] :
        nm \in [1..k -> AnnotatedMethods], tc \in [1..k -> TestCounts] }

\* the id of the test step, from methodName and testIndex
testId(methodName, testIndex) == methodName \o <<".">> \o NumToStr(testIndex)

\* the ids handed to mark_test_passed and mark_test_failed
MarkIds == { testId(<<"a">>, 0), testId(<<"a">>, 1), testId(<<"b">>, 0) }

\* the test steps of the features, feature by feature
stepsOf(features) ==
    flatten([f \in 1..Len(features) |->
               [t \in 1..features[f].tests |->
                  [id |-> testId(features[f].name, t - 1),
                   feature |-> features[f].name, file |-> features[f].file]]])

\* !state || !state.completed
isPending(state, id) == id \notin DOMAIN state \/ ~state[id].completed

\* testState.set(testId, { completed: true, passed: true })
markTestPassed(state, id) ==
    MapSet(state, id, [completed |-> TRUE, passed |-> TRUE, reason |-> Null])

\* a failure stored as a pass
markTestFailedAsPassed(state, id, reason) ==
    MapSet(state, id, [completed |-> TRUE, passed |-> TRUE, reason |-> reason])

\* testState.set(testId, { completed: true, passed: false, reason })
markTestFailed(state, id, reason) ==
    MapSet(state, id, [completed |-> TRUE, passed |-> FALSE, reason |-> reason])

getPendingTests(features, state) ==
    SelectSeq(stepsOf(features), LAMBDA step : isPending(state, step.id))

getTestSummary(features, state) ==
    LET steps == stepsOf(features)
        done == SelectSeq(steps, LAMBDA step : ~isPending(state, step.id))
        passed == Len(SelectSeq(done, LAMBDA step : state[step.id].passed))
        failedSteps == SelectSeq(done, LAMBDA step : ~state[step.id].passed)
        total == Len(steps)
    IN  [ kind |-> "summary", total |-> total, passed |-> passed,
          failed |-> Len(failedSteps), pending |-> total - Len(done),
          progress |-> IF total > 0 THEN roundRatio(Len(done), total, 100) ELSE 0,
          failures |-> [i \in 1..Len(failedSteps) |->
                          [id |-> failedSteps[i].id, reason |-> state[failedSteps[i].id].reason]] ]

TestInit ==
    /\ \E k \in 0..MaxFeatures : taFeatures \in FeatureLists(k)
    /\ testState = EmptyMap
    /\ taLog = <<>>
    /\ taResponse = NullRec

TestIdle ==
    /\ taFeatures = <<>>
    /\ testState = EmptyMap
    /\ taLog = <<>>
    /\ taResponse = NullRec

MarkTestPassed(id) ==
    /\ Len(taLog) < MaxCalls
    /\ testState' = markTestPassed(testState, id)
    /\ taLog' = Append(taLog, [op |-> "passed", id |-> id])
    /\ taResponse' = [kind |-> "mark", success |-> TRUE, testId |-> id]
    /\ UNCHANGED taFeatures
    /\ UNCHANGED notTest

MarkTestFailed(id) ==
    /\ Len(taLog) < MaxCalls
    /\ testState' = markTestFailed(testState, id, "reason")
    /\ taLog' = Append(taLog, [op |-> "failed", id |-> id])
    /\ taResponse' = [kind |-> "mark", success |-> TRUE, testId |-> id]
    /\ UNCHANGED taFeatures
    /\ UNCHANGED notTest

\* testState.clear()
ResetTestState ==
    /\ Len(taLog) < MaxCalls
    /\ testState' = EmptyMap
    /\ taLog' = Append(taLog, [op |-> "reset", id |-> <<>>])
    /\ taResponse' = [kind |-> "reset", success |-> TRUE]
    /\ UNCHANGED taFeatures
    /\ UNCHANGED notTest

GetTestSummary ==
    /\ taResponse' = getTestSummary(taFeatures, testState)
    /\ UNCHANGED <<taFeatures, testState, taLog>>
    /\ UNCHANGED notTest

GetPendingTests ==
    /\ taResponse' = [kind |-> "pending", tests |-> getPendingTests(taFeatures, testState)]
    /\ UNCHANGED <<taFeatures, testState, taLog>>
    /\ UNCHANGED notTest

TestNext ==
    \/ \E id \in MarkIds : MarkTestPassed(id)
    \/ \E id \in MarkIds : MarkTestFailed(id)
    \/ ResetTestState
    \/ GetTestSummary
    \/ GetPendingTests

----------------------------------------------------------------------------
(* custom-rules.js: getCustomRules, checkCustomRules' rule collection,     *)
(* setCustomRule and deleteCustomRule as whole calls of one server on a    *)
(* rules directory that may hold malformed files.  A file that parses is   *)
(* kept as the record JSON.parse gives; JSON.stringify(ruleSet, null, 2)   *)
(* followed by JSON.parse gives that record back.                          *)

RuleFiles == <<"s", "t">>            \* readdirSync order: s.json, t.json
Invalid == [tag |-> "invalid"]       \* not JSON, or JSON null: the try block throws
Undefined == "undefined"             \* the key a record without a name is stored under

\* detect: "none" (no detect field), "hit" or "miss" (a detect field whose
\* patterns are, or are not, found in the project)
FullRecord(name, rules, alwaysApply, detect) ==
    [name |-> name, description |-> "d", alwaysApply |-> alwaysApply,
     detect |-> detect, rules |-> rules]
\* { "name": ..., "description": ... }: no rules list
NoRulesRecord(name, alwaysApply) ==
    [name |-> name, description |-> "d", alwaysApply |-> alwaysApply, detect |-> "none"]
\* { "description": ..., "rules": [...] }: no name
NoNameRecord(rules) ==
    [description |-> "d", alwaysApply |-> FALSE, detect |-> "none", rules |-> rules]

ContentsOfS ==
    { Missing, FullRecord("s", <<>>, FALSE, "none"),
      FullRecord("s", <<Rule("r1", "x")>>, TRUE, "none"),
      FullRecord("s", <<Rule("r1", "x"), Rule("r2", "x")>>, FALSE, "hit"),
      FullRecord("s", <<Rule("r2", "x"), Rule("r1", "x")>>, FALSE, "miss") }
ContentsOfT ==
    { Missing, Invalid, FullRecord("t", <<Rule("r1", "y")>>, TRUE, "none"),
      NoRulesRecord("t", FALSE), NoRulesRecord("t", TRUE),
      NoNameRecord(<<Rule("r2", "y")>>) }

hasRules(rec) == "rules" \in DOMAIN rec
nameOf(rec) == IF "name" \in DOMAIN rec THEN rec.name ELSE Undefined

\* loadRuleSets(): ruleSets[ruleSet.name] = ruleSet for every file that parses
RECURSIVE loadFrom(_, _, _)
loadFrom(dir, i, ruleSets) ==
    IF i > Len(RuleFiles) THEN ruleSets
    ELSE LET content == dir[RuleFiles[i]]
         IN  IF content \in {Missing, Invalid, Partial}
             THEN loadFrom(dir, i + 1, ruleSets)
             ELSE loadFrom(dir, i + 1, MapSet(ruleSets, nameOf(content), content))

loadRuleSetsOf(dir) == loadFrom(dir, 1, EmptyMap)

\* the keys in insertion order (Object.entries)
entriesOf(dir) ==
    dedupe(SelectSeq([i \in 1..Len(RuleFiles) |->
                        IF dir[RuleFiles[i]] \in {Missing, Invalid, Partial}
                        THEN Null ELSE nameOf(dir[RuleFiles[i]])],
                     LAMBDA k : k # Null))

Thrown == [kind |-> "thrown"]

\* getCustomRules(): ruleSet.rules.length throws on a record without rules
getCustomRules(dir) ==
    LET ruleSets == loadRuleSetsOf(dir)
    IN  IF \E n \in DOMAIN ruleSets : ~hasRules(ruleSets[n]) THEN Thrown
        ELSE [ kind |-> "rules",
               ruleSets |-> [n \in DOMAIN ruleSets |->
                               [description |-> ruleSets[n].description,
                                ruleCount |-> Len(ruleSets[n].rules),
                                rules |-> [i \in 1..Len(ruleSets[n].rules) |->
                                             ruleSets[n].rules[i].id]]],
               totalRules |-> Len(flatten([i \in 1..Len(entriesOf(dir)) |->
                                             ruleSets[entriesOf(dir)[i]].rules])) ]

\* detectProjectRuleSets(dir).detected
detectedOf(dir) ==
    SelectSeq(entriesOf(dir), LAMBDA n : loadRuleSetsOf(dir)[n].detect = "hit")

\* the rule sets whose rules checkCustomRules collects, in order
collectedSets(dir, options) ==
    LET ruleSets == loadRuleSetsOf(dir)
        detected == detectedOf(dir)
    IN  IF options.ruleSet # Null
        THEN IF options.ruleSet \in DOMAIN ruleSets THEN <<options.ruleSet>> ELSE <<>>
        ELSE IF options.autoDetect
             THEN detected
                  \o SelectSeq(entriesOf(dir),
                               LAMBDA n : /\ ruleSets[n].alwaysApply
                                          /\ \A i \in 1..Len(detected) : detected[i] # n)
             ELSE entriesOf(dir)

\* checkCustomRules up to the loop over allRules: spreading or iterating the
\* missing rules of a collected record throws
collectRules(dir, options) ==
    LET ruleSets == loadRuleSetsOf(dir)
        sets == collectedSets(dir, options)
    IN  IF \E i \in 1..Len(sets) : ~hasRules(ruleSets[sets[i]]) THEN Thrown
        ELSE [ kind |-> "check",
               allRules |-> flatten([i \in 1..Len(sets) |-> ruleSets[sets[i]].rules]) ]

CheckOptions == [ruleSet : {Null, "s", "t"}, autoDetect : BOOLEAN]

RulesDirInit ==
    /\ rdFiles \in { [f \in {"s", "t"} |-> IF f = "s" THEN s ELSE t] :
                       s \in ContentsOfS, t \in ContentsOfT }
    /\ rdFiles0 = rdFiles
    /\ rdCall = NullRec
    /\ rdResult = NullRec

RulesDirIdle ==
    /\ rdFiles = [f \in {"s", "t"} |-> Missing]
    /\ rdFiles0 = rdFiles
    /\ rdCall = NullRec
    /\ rdResult = NullRec

GetCustomRules ==
    /\ rdCall = NullRec
    /\ rdCall' = [kind |-> "get"]
    /\ rdResult' = getCustomRules(rdFiles)
    /\ UNCHANGED <<rdFiles, rdFiles0>>
    /\ UNCHANGED notRulesDir

CollectRules(options) ==
    /\ rdCall = NullRec
    /\ rdCall' = [kind |-> "check", options |-> options]
    /\ rdResult' = collectRules(rdFiles, options)
    /\ UNCHANGED <<rdFiles, rdFiles0>>
    /\ UNCHANGED notRulesDir

\* setCustomRule(ruleSetName, rule): load, mutate, saveRuleSet
SetCustomRule(ruleSetName, rule) ==
    /\ rdCall = NullRec
    /\ rdCall' = [kind |-> "set", ruleSet |-> ruleSetName, rule |-> rule]
    /\ LET ruleSets == loadRuleSetsOf(rdFiles)
       IN  IF ruleSetName \in DOMAIN ruleSets /\ ~hasRules(ruleSets[ruleSetName])
           THEN /\ rdResult' = Thrown                   \* ruleSet.rules.findIndex
                /\ UNCHANGED rdFiles
           ELSE LET saved == setRuleIn(ruleSets, ruleSetName, rule)
                IN  /\ rdFiles' = [rdFiles EXCEPT ![saved.name] = saved]
                    /\ rdResult' = [kind |-> "set", success |-> TRUE]
    /\ UNCHANGED rdFiles0
    /\ UNCHANGED notRulesDir

\* deleteCustomRule(ruleSetName, ruleId)
DeleteCustomRule(ruleSetName, ruleId) ==
    /\ rdCall = NullRec
    /\ rdCall' = [kind |-> "delete", ruleSet |-> ruleSetName, ruleId |-> ruleId]
    /\ LET ruleSets == loadRuleSetsOf(rdFiles)
       IN  IF ruleSetName \in DOMAIN ruleSets /\ ~hasRules(ruleSets[ruleSetName])
           THEN /\ rdResult' = Thrown
                /\ UNCHANGED rdFiles
           ELSE LET saved == deleteRuleIn(ruleSets, ruleSetName, ruleId)
                IN  IF saved = NullRec
                    THEN /\ rdResult' = [kind |-> "delete", success |-> FALSE]
                         /\ UNCHANGED rdFiles
                    ELSE /\ rdFiles' = [rdFiles EXCEPT ![saved.name] = saved]
                         /\ rdResult' = [kind |-> "delete", success |-> TRUE]
    /\ UNCHANGED rdFiles0
    /\ UNCHANGED notRulesDir

RulesDirNext ==
    \/ GetCustomRules
    \/ \E options \in CheckOptions : CollectRules(options)
    \/ \E n \in {"s", "t"}, id \in RuleIds, body \in RuleBodies : SetCustomRule(n, Rule(id, body))
    \/ \E n \in {"s", "t"}, id \in RuleIds : DeleteCustomRule(n, id)

----------------------------------------------------------------------------
(* mcp-server.js: the line handler of startStdioServer with handleMessage  *)
(* (and, in the variant without roots, handleRequest), requestRoots and    *)
(* its timer.  A message is [kind, id, method, detail]; id 0 stands for a  *)
(* message without id.                                                     *)

MaxMessages == 4        \* lines read per run
MaxRootRequests == 2    \* roots/list requests sent per run

Variants == {"handleMessage", "handleRequest"}

Msg(kind, id, method, detail) == [kind |-> kind, id |-> id, method |-> method, detail |-> detail]

\* requests (method and id), notifications (method, no id) and responses
\* (result or error): result {roots: [...]}, result {}, result null, error {message}
ClientRequests ==
    { Msg("request", 1, "initialize", d) : d \in {"plain", "rootsCapability", "inlineRoots"} }
    \cup { Msg("request", 1, "tools/list", "-") }
    \cup { Msg("request", 1, "tools/call", d) : d \in {"known", "throws", "unknown"} }
    \cup { Msg("request", 1, "bogus", "-") }
ClientNotifications ==
    { Msg("notification", 0, m, "-") :
        m \in {"notifications/initialized", "notifications/roots/list_changed",
               "notifications/cancelled"} }
ClientResponses ==
    { Msg("response", id, "-", d) : id \in 1..2, d \in {"roots", "empty", "null", "error"} }
ClientMessages == ClientRequests \cup ClientNotifications \cup ClientResponses

Result(id) == [kind |-> "result", id |-> id, code |-> 0]
ErrorReply(id, code) == [kind |-> "error", id |-> id, code |-> code]
RootsList(id) == [kind |-> "roots/list", id |-> id, code |-> 0]

\* the request branch of handleMessage and handleRequest: the reply
replyTo(msg) ==
    IF msg.method \in {"initialize", "tools/list"} THEN Result(msg.id)
    ELSE IF msg.method = "tools/call"
         THEN IF msg.detail = "known" THEN Result(msg.id)
              ELSE ErrorReply(msg.id, -32000)          \* catch (error)
         ELSE ErrorReply(msg.id, -32601)               \* default:

\* resolve(result.roots || []) throws when result is null or undefined
resolveThrows(msg) == msg.detail = "null"

ServerInit ==
    /\ svVariant \in Variants
    /\ clientSupportsRoots = FALSE
    /\ nextRequestId = 1
    /\ pendingRequests = {}
    /\ svTimers = {}
    /\ svPromises = [id \in 1..MaxRootRequests |-> [state |-> "unsent", waiter |-> "-"]]
    /\ svRoots = "default"
    /\ svCacheValid = TRUE
    /\ svHandled = 0
    /\ svLast = NullRec
    /\ svCaught = FALSE

ServerIdle ==
    /\ svVariant = "handleMessage"
    /\ clientSupportsRoots = FALSE
    /\ nextRequestId = 1
    /\ pendingRequests = {}
    /\ svTimers = {}
    /\ svPromises = <<>>
    /\ svRoots = "default"
    /\ svCacheValid = TRUE
    /\ svHandled = 0
    /\ svLast = NullRec
    /\ svCaught = FALSE

\* what the awaiting handleNotification does once its request has roots
Continue(waiter, roots) ==
    /\ svRoots' = IF roots = "roots" THEN "client" ELSE svRoots
    /\ svCacheValid' = IF roots = "roots" /\ waiter = "notifications/roots/list_changed"
                       THEN FALSE ELSE svCacheValid

\* a line holding a request, read by the server with handleMessage
ReceiveRequest(msg) ==
    /\ svVariant = "handleMessage"
    /\ svHandled < MaxMessages
    /\ msg \in ClientRequests
    /\ svHandled' = svHandled + 1
    /\ clientSupportsRoots' =
          (clientSupportsRoots \/ (msg.method = "initialize" /\ msg.detail = "rootsCapability"))
    /\ svRoots' = IF msg.method = "initialize" /\ msg.detail = "inlineRoots"
                  THEN "client" ELSE svRoots
    /\ svLast' = [msg |-> msg, out |-> <<replyTo(msg)>>]
    /\ UNCHANGED <<svVariant, nextRequestId, pendingRequests, svTimers, svPromises,
                   svCacheValid, svCaught>>
    /\ UNCHANGED notServer

\* a line holding a notification: handleNotification up to its await
ReceiveNotification(msg) ==
    /\ svVariant = "handleMessage"
    /\ svHandled < MaxMessages
    /\ msg \in ClientNotifications
    /\ svHandled' = svHandled + 1
    /\ IF /\ msg.method \in {"notifications/initialized", "notifications/roots/list_changed"}
          /\ clientSupportsRoots
          /\ nextRequestId <= MaxRootRequests
       THEN \* requestRoots()
            /\ nextRequestId' = nextRequestId + 1
            /\ pendingRequests' = pendingRequests \cup {nextRequestId}
            /\ svTimers' = svTimers \cup {nextRequestId}
            /\ svPromises' = [svPromises EXCEPT
                                ![nextRequestId] = [state |-> "pending", waiter |-> msg.method]]
            /\ svLast' = [msg |-> msg, out |-> <<RootsList(nextRequestId)>>]
       ELSE /\ UNCHANGED <<nextRequestId, pendingRequests, svTimers, svPromises>>
            /\ svLast' = [msg |-> msg, out |-> <<>>]
    /\ UNCHANGED <<svVariant, clientSupportsRoots, svRoots, svCacheValid, svCaught>>
    /\ UNCHANGED notServer

\* a line holding a response: the response branch of handleMessage
ReceiveResponse(msg) ==
    /\ svVariant = "handleMessage"
    /\ svHandled < MaxMessages
    /\ msg \in ClientResponses
    /\ svHandled' = svHandled + 1
    /\ IF msg.id \in pendingRequests
       THEN /\ pendingRequests' = pendingRequests \ {msg.id}
            /\ svTimers' = svTimers \ {msg.id}                  \* clearTimeout(timeout)
            /\ IF msg.detail = "error"
               THEN /\ svPromises' = [svPromises EXCEPT ![msg.id].state = "rejected"]
                    /\ svLast' = [msg |-> msg, out |-> <<>>]
                    /\ UNCHANGED <<svRoots, svCacheValid, svCaught>>
               ELSE IF resolveThrows(msg)
                    THEN \* the exception leaves handleMessage; the line handler's
                         \* catch sends the parse error
                         /\ svLast' = [msg |-> msg, out |-> <<ErrorReply(0, -32700)>>]
                         /\ svCaught' = TRUE
                         /\ UNCHANGED <<svPromises, svRoots, svCacheValid>>
                    ELSE /\ svPromises' = [svPromises EXCEPT ![msg.id].state = "resolved"]
                         /\ Continue(svPromises[msg.id].waiter, msg.detail)
                         /\ svLast' = [msg |-> msg, out |-> <<>>]
                         /\ UNCHANGED svCaught
       ELSE /\ svLast' = [msg |-> msg, out |-> <<>>]
            /\ UNCHANGED <<pendingRequests, svTimers, svPromises, svRoots, svCacheValid,
                           svCaught>>
    /\ UNCHANGED <<svVariant, clientSupportsRoots, nextRequestId>>
    /\ UNCHANGED notServer

\* the 5-second timer of a roots/list request fires
Timeout(id) ==
    /\ id \in svTimers
    /\ svTimers' = svTimers \ {id}
    /\ pendingRequests' = pendingRequests \ {id}
    /\ svPromises' = [svPromises EXCEPT
                        ![id].state = IF @ = "pending" THEN "rejected" ELSE @]
    /\ UNCHANGED <<svVariant, clientSupportsRoots, nextRequestId, svRoots, svCacheValid,
                   svHandled, svLast, svCaught>>
    /\ UNCHANGED notServer

\* a line read by the server with handleRequest: no id, no reply; otherwise
\* the switch on method
HandleRequest(msg) ==
    /\ svVariant = "handleRequest"
    /\ svHandled < MaxMessages
    /\ svHandled' = svHandled + 1
    /\ svRoots' = IF msg.kind = "request" /\ msg.method = "initialize"
                     /\ msg.detail = "inlineRoots"
                  THEN "client" ELSE svRoots
    /\ svLast' = [msg |-> msg,
                  out |-> IF msg.id = 0 THEN <<>>
                          ELSE IF msg.kind = "request" THEN <<replyTo(msg)>>
                          ELSE <<ErrorReply(msg.id, -32601)>>]
    /\ UNCHANGED <<svVariant, clientSupportsRoots, nextRequestId, pendingRequests, svTimers,
                   svPromises, svCacheValid, svCaught>>
    /\ UNCHANGED notServer

ServerNext ==
    \/ \E msg \in ClientRequests : ReceiveRequest(msg)
    \/ \E msg \in ClientNotifications : ReceiveNotification(msg)
    \/ \E msg \in ClientResponses : ReceiveResponse(msg)
    \/ \E id \in 1..MaxRootRequests : Timeout(id)
    \/ \E msg \in ClientMessages : HandleRequest(msg)

----------------------------------------------------------------------------
(* Specifications: one per subsystem; the other variables stay put.        *)

CacheIdle == CacheInit
FilterIdle ==
    /\ config = DefaultConfig
    /\ rootIgnore = [r \in Roots |-> NoFile]
    /\ rootEntries = [r \in Roots |-> FileNames]
    /\ found = [r \in Roots |-> NullRec]
RuleIdle ==
    /\ store = [n \in RuleSetNames |-> Missing]
    /\ store0 = store
    /\ procs = [p \in Procs |-> NullRec]
DeadIdle ==
    /\ dcFs = [f \in FilePaths |-> NoFacts]
    /\ dcDir = ProjectRoot
    /\ dcResult = NullRec
GraphIdle ==
    /\ parsed = [classes |-> <<>>, functions |-> <<>>]
    /\ graph = NullRec

\* minifyLegend called twice on every list of pool names
InitLegend ==
    LegendInit /\ ShortIdle /\ CacheIdle /\ FilterIdle /\ RuleIdle /\ DeadIdle /\ GraphIdle /\ CheckIdle /\ DedupIdle /\ HealthIdle /\ FullIdle /\ SimilarIdle /\ ComplexityIdle /\ ToolIdle /\ TestIdle /\ RulesDirIdle /\ ServerIdle
SpecLegend == InitLegend /\ [][LegendNext]_vars

\* createShortName on every name up to MaxNameLen characters
InitShortName ==
    ShortInit /\ LegendIdle /\ CacheIdle /\ FilterIdle /\ RuleIdle /\ DeadIdle /\ GraphIdle /\ CheckIdle /\ DedupIdle /\ HealthIdle /\ FullIdle /\ SimilarIdle /\ ComplexityIdle /\ ToolIdle /\ TestIdle /\ RulesDirIdle /\ ServerIdle
SpecShortName == InitShortName /\ [][ShortNext]_vars

\* graph tools and invalidate_cache, called one after the other (SeqNext) or
\* with several request lines in one input chunk (StdioNext)
InitCache ==
    CacheInit /\ LegendIdle /\ ShortIdle /\ FilterIdle /\ RuleIdle /\ DeadIdle /\ GraphIdle /\ CheckIdle /\ DedupIdle /\ HealthIdle /\ FullIdle /\ SimilarIdle /\ ComplexityIdle /\ ToolIdle /\ TestIdle /\ RulesDirIdle /\ ServerIdle
SpecCacheSeq == InitCache /\ [][SeqNext]_vars
SpecStdio == InitCache /\ [][StdioNext]_vars

\* file-listing queries on two roots
InitFilter ==
    FilterInit /\ LegendIdle /\ ShortIdle /\ CacheIdle /\ RuleIdle /\ DeadIdle /\ GraphIdle /\ CheckIdle /\ DedupIdle /\ HealthIdle /\ FullIdle /\ SimilarIdle /\ ComplexityIdle /\ ToolIdle /\ TestIdle /\ RulesDirIdle /\ ServerIdle
SpecFilter == InitFilter /\ [][FilterNext]_vars

\* two servers writing to one rule set
InitRules ==
    RuleInit /\ LegendIdle /\ ShortIdle /\ CacheIdle /\ FilterIdle /\ DeadIdle /\ GraphIdle /\ CheckIdle /\ DedupIdle /\ HealthIdle /\ FullIdle /\ SimilarIdle /\ ComplexityIdle /\ ToolIdle /\ TestIdle /\ RulesDirIdle /\ ServerIdle
SpecRules == InitRules /\ [][RuleNext]_vars

\* getDeadCode on every project of the file menu
InitDead ==
    DeadInit /\ LegendIdle /\ ShortIdle /\ CacheIdle /\ FilterIdle /\ RuleIdle /\ GraphIdle /\ CheckIdle /\ DedupIdle /\ HealthIdle /\ FullIdle /\ SimilarIdle /\ ComplexityIdle /\ ToolIdle /\ TestIdle /\ RulesDirIdle /\ ServerIdle
SpecDead == InitDead /\ [][DeadNext]_vars

\* buildGraph on every parsed project of the menu
InitGraph ==
    GraphInit /\ LegendIdle /\ ShortIdle /\ CacheIdle /\ FilterIdle /\ RuleIdle /\ DeadIdle /\ CheckIdle /\ DedupIdle /\ HealthIdle /\ FullIdle /\ SimilarIdle /\ ComplexityIdle /\ ToolIdle /\ TestIdle /\ RulesDirIdle /\ ServerIdle
SpecGraph == InitGraph /\ [][GraphNext]_vars

\* checkFileAgainstRule on files of one or two lines
InitCheck ==
    CheckInit /\ LegendIdle /\ ShortIdle /\ CacheIdle /\ FilterIdle /\ RuleIdle /\ DeadIdle /\ GraphIdle /\ DedupIdle /\ HealthIdle /\ FullIdle /\ SimilarIdle /\ ComplexityIdle /\ ToolIdle /\ TestIdle /\ RulesDirIdle /\ ServerIdle
SpecCheck == InitCheck /\ [][CheckNext]_vars

\* checkCustomRules on every menu of collected rules
InitDedup ==
    DedupInit /\ LegendIdle /\ ShortIdle /\ CacheIdle /\ FilterIdle /\ RuleIdle /\ DeadIdle /\ GraphIdle /\ CheckIdle /\ HealthIdle /\ FullIdle /\ SimilarIdle /\ ComplexityIdle /\ ToolIdle /\ TestIdle /\ RulesDirIdle /\ ServerIdle
SpecDedup == InitDedup /\ [][DedupNext]_vars

\* calculateHealthScore on every menu of counts
InitHealth ==
    HealthInit /\ LegendIdle /\ ShortIdle /\ CacheIdle /\ FilterIdle /\ RuleIdle /\ DeadIdle /\ GraphIdle /\ CheckIdle /\ DedupIdle /\ FullIdle /\ SimilarIdle /\ ComplexityIdle /\ ToolIdle /\ TestIdle /\ RulesDirIdle /\ ServerIdle
SpecHealth == InitHealth /\ [][HealthNext]_vars

\* one getFullAnalysis query, every scorer free to return or to throw
InitFull ==
    FullInit /\ LegendIdle /\ ShortIdle /\ CacheIdle /\ FilterIdle /\ RuleIdle /\ DeadIdle /\ GraphIdle /\ CheckIdle /\ DedupIdle /\ HealthIdle /\ SimilarIdle /\ ComplexityIdle /\ ToolIdle /\ TestIdle /\ RulesDirIdle /\ ServerIdle
SpecFull == InitFull /\ [][FullNext]_vars

\* getSimilarFunctions on every pair of signatures of the menu
InitSimilar ==
    SimilarInit /\ LegendIdle /\ ShortIdle /\ CacheIdle /\ FilterIdle /\ RuleIdle /\ DeadIdle /\ GraphIdle /\ CheckIdle /\ DedupIdle /\ HealthIdle /\ FullIdle /\ ComplexityIdle /\ ToolIdle /\ TestIdle /\ RulesDirIdle /\ ServerIdle
SpecSimilar == InitSimilar /\ [][SimilarNext]_vars

\* calculateComplexity on every body of the menu
InitComplexity ==
    ComplexityInit /\ LegendIdle /\ ShortIdle /\ CacheIdle /\ FilterIdle /\ RuleIdle /\ DeadIdle /\ GraphIdle /\ CheckIdle /\ DedupIdle /\ HealthIdle /\ FullIdle /\ SimilarIdle /\ ToolIdle /\ TestIdle /\ RulesDirIdle /\ ServerIdle
SpecComplexity == InitComplexity /\ [][ComplexityNext]_vars

\* expand, deps and usages on a project with or without a cached graph
InitTool ==
    ToolInit /\ LegendIdle /\ ShortIdle /\ CacheIdle /\ FilterIdle /\ RuleIdle /\ DeadIdle /\ GraphIdle /\ CheckIdle /\ DedupIdle /\ HealthIdle /\ FullIdle /\ SimilarIdle /\ ComplexityIdle /\ TestIdle /\ RulesDirIdle /\ ServerIdle
SpecTool == InitTool /\ [][ToolNext]_vars

\* the test checklist tools on a directory of annotated methods
InitTest ==
    TestInit /\ LegendIdle /\ ShortIdle /\ CacheIdle /\ FilterIdle /\ RuleIdle /\ DeadIdle /\ GraphIdle /\ CheckIdle /\ DedupIdle /\ HealthIdle /\ FullIdle /\ SimilarIdle /\ ComplexityIdle /\ ToolIdle /\ RulesDirIdle /\ ServerIdle
SpecTest == InitTest /\ [][TestNext]_vars

\* the custom rule tools on a directory that may hold malformed files
InitRulesDir ==
    RulesDirInit /\ LegendIdle /\ ShortIdle /\ CacheIdle /\ FilterIdle /\ RuleIdle /\ DeadIdle /\ GraphIdle /\ CheckIdle /\ DedupIdle /\ HealthIdle /\ FullIdle /\ SimilarIdle /\ ComplexityIdle /\ ToolIdle /\ TestIdle /\ ServerIdle
SpecRulesDir == InitRulesDir /\ [][RulesDirNext]_vars

\* the server reading lines from a client
InitServer ==
    ServerInit /\ LegendIdle /\ ShortIdle /\ CacheIdle /\ FilterIdle /\ RuleIdle /\ DeadIdle /\ GraphIdle /\ CheckIdle /\ DedupIdle /\ HealthIdle /\ FullIdle /\ SimilarIdle /\ ComplexityIdle /\ ToolIdle /\ TestIdle /\ RulesDirIdle
SpecServer == InitServer /\ [][ServerNext]_vars

----------------------------------------------------------------------------
(* Properties of the legend                                                *)

\* C1: the legend minifyLegend builds never gives two distinct full names the
\* same short code, at any point of the loop and in the legend it returns, and
\* a second call on the same ordered list returns the identical legend.
C1_LegendInjectiveDeterministic ==
    /\ \A a, b \in DOMAIN legend : a # b => legend[a] # legend[b]
    /\ (lpc = "idle" /\ calls = 2) => legend = firstLegend

\* both calls have returned for a list holding two distinct names whose base
\* codes collide
C1_CollidingNamesMinifiedTwice ==
    /\ lpc = "idle"
    /\ calls = 2
    /\ \E i, j \in 1..Len(names) :
          /\ names[i] # names[j]
          /\ createShortName(names[i]) = createShortName(names[j])

\* the base code as the documentation words it: the uppercase letters in
\* order, cut to 3, when there are at least 2; else the first character
\* lower-cased and the first uppercase letter after position 0; else the first
\* 2 characters verbatim
ClaimedShortName(name) ==
    LET uppers == SelectSeq(name, IsUpper)
        later == {i \in 2..Len(name) : IsUpper(name[i])}
    IN  IF Len(uppers) >= 2 THEN slice0(uppers, 3)
        ELSE IF later # {} THEN <<toLowerCase(name[1]), name[CHOOSE i \in later : \A j \in later : i <= j]>>
        ELSE slice0(name, 2)

\* C10: for every name, what createShortName returns is the documented base
\* code, also for names with digits or '_' and for names whose only uppercase
\* letter is at position 0.
C10_ShortNameAsDocumented ==
    snPc = "ret" => snShort = ClaimedShortName(snName)

----------------------------------------------------------------------------
(* Properties of the graph cache                                           *)

\* the handlers of graph queries that have answered
DoneQueries == {i \in 1..Len(reqs) : reqs[i].tool \in GraphTools /\ reqs[i].pc = "done"}

\* C5: in a sequential series of graph queries and invalidate_cache calls,
\* cachedGraph and cachedPath are set and cleared together and the one cached
\* graph is the graph of cachedPath; a query for root p answers from the cached
\* graph exactly when the most recently built graph was built for p and
\* invalidate_cache was not called since; otherwise it builds a new graph for p;
\* either way the cache holds the graph for p, the one it answered with, once
\* the query is done.
C5_SingleSlotCache ==
    /\ (cachedGraph = NullRec) <=> (cachedPath = Null)
    /\ cachedGraph # NullRec => cachedGraph.path = cachedPath
    /\ \A i \in DoneQueries :
          LET r == reqs[i]
          IN  /\ r.hit <=> (r.sawBuilt = r.path /\ ~r.sawInvSince)
              /\ r.hit => r.answer = r.sawGraph
              /\ ~r.hit => r.answer = [path |-> r.path, buildInv |-> r.startInv]
              /\ r.answer.path = r.path
              /\ i = Len(reqs) => cachedPath = r.path /\ cachedGraph = r.answer

\* a query reused the cached graph, another rebuilt because the cache had been
\* invalidated after a build for its root, a third because the cached graph
\* was built for another root
C5_HitAndBothMisses ==
    /\ \E i \in DoneQueries : reqs[i].hit
    /\ \E i \in DoneQueries :
          ~reqs[i].hit /\ reqs[i].sawBuilt = reqs[i].path /\ reqs[i].sawInvSince
    /\ \E i \in DoneQueries :
          ~reqs[i].hit /\ reqs[i].sawBuilt \notin {Null, reqs[i].path}

\* C6: once an invalidate_cache call has returned, no later graph query is
\* answered from a graph whose build started before that invalidation, also
\* when the invalidation is handled while a build is in flight.
C6_NoAnswerFromBuildBeforeInvalidation ==
    \A i \in DoneQueries : reqs[i].answer.buildInv >= reqs[i].startInv

----------------------------------------------------------------------------
(* Properties of the file filters                                          *)

\* the ignore patterns a root's own .gitignore gives
OwnPatterns(root) == IF rootIgnore[root] = NoFile THEN {} ELSE rootIgnore[root]

\* C7: what a query lists under a root depends on the root's files, its own
\* .gitignore and the filter settings only: whatever queries ran before on
\* other roots, the listing is the one the root's own patterns give.
C7_ListingDependsOnOwnRootOnly ==
    \A root \in Roots :
        found[root] # NullRec =>
            found[root].files =
                Visible([ excludeDirs |-> DEFAULT_EXCLUDES,
                          useGitignore |-> found[root].useGitignore,
                          gitignorePatterns |-> OwnPatterns(root) ], root)

----------------------------------------------------------------------------
(* Properties of the rule store                                            *)

\* one call run alone on a store: load, change, save
SerialApply(st, op) ==
    LET rec == ToSave(loadRuleSets(st), op)
    IN  IF rec = NullRec THEN st ELSE [st EXCEPT ![rec.name] = rec]

\* C8: when two writes to one rule set run concurrently, the stored record
\* afterwards is the result of applying both in some serial order, so no write
\* that reported success is lost.
C8_ConcurrentWritesSerializable ==
    (\A p \in Procs : procs[p].pc = "done") =>
        \E p, q \in Procs :
            /\ p # q
            /\ store = SerialApply(SerialApply(store0, procs[p].op), procs[q].op)

----------------------------------------------------------------------------
(* Properties of the graph                                                 *)

\* C4: in every graph buildGraph returns, the target of each edge is a key of
\* graph.nodes, or has the form owner.method with owner a key of graph.nodes.
C4_EdgeTargetsAreNodes ==
    graph # NullRec =>
        \A i \in 1..Len(graph.edges) :
            LET target == graph.edges[i][3]
            IN  \/ target \in DOMAIN graph.nodes
                \/ /\ includesDot(target)
                   /\ splitHead(target) \in DOMAIN graph.nodes

----------------------------------------------------------------------------
(* Properties of the dead-code report                                      *)

\* getDeadCode returned a result
Returned == dcResult # NullRec /\ ~dcResult.thrown

DirFiles == filesUnder(dcFs, dcDir)
\* the files of the target directory whose declarations are looked at
NonTestFiles == {f \in DirFiles : ~isTestFile(relative(dcDir, f))}

Reported(name, type, f) == Item(name, type, relative(dcDir, f)) \in dcResult.items

Declarations(f) ==
    {<<n, "function">> : n \in dcFs[f].funcs} \cup {<<n, "class">> : n \in dcFs[f].classes}

\* the names a file's call sites reference: callees of f() and new F(),
\* objects of obj.m(), identifiers passed as arguments
Referenced(c) == c.bare \cup {m[1] : m \in c.member} \cup c.args

\* the objects of a file's member calls
Qualifiers(c) == {m[1] : m \in c.member}

\* some file of the project imports name from f through a relative specifier
HasImporter(name, f) ==
    \E g \in FilePaths :
        \E imp \in dcFs[g].imports :
            /\ imp.name = name
            /\ startsWithDot(imp.source)
            /\ withJs(resolve(dirname(g), imp.source)) = f

C3_ExportDeadIffNoImporterNoQualifier ==
    Returned =>
        \A f \in NonTestFiles :
            \A n \in dcFs[f].named :
                Reported(n, "export", f)
                    <=> ~HasImporter(n, f) /\ n \notin Qualifiers(dcFs[f])

\* C3 amended: a named export (name, file) of a non-test file is reported dead
\* if and only if no file of the project has a relative import of that name
\* resolving to that file and the name is not referenced by any call site of
\* its own file, whether as callee, as qualifier or as an identifier argument;
\* exports of test files are not reported.
C3_ExportDeadIffNoImporterNoOwnReference ==
    Returned =>
        /\ \A f \in NonTestFiles :
              \A n \in dcFs[f].named :
                  Reported(n, "export", f)
                      <=> ~HasImporter(n, f) /\ n \notin Referenced(dcFs[f])
        /\ \A f \in DirFiles \ NonTestFiles :
              \A n \in dcFs[f].named : ~Reported(n, "export", f)

\* a result in which one export without importers is reported dead and another
\* export without importers is spared because its own file calls it
C3_ReportedAndSparedExport ==
    /\ Returned
    /\ \E f \in NonTestFiles : \E n \in dcFs[f].named :
          Reported(n, "export", f) /\ ~HasImporter(n, f)
    /\ \E f \in NonTestFiles : \E n \in dcFs[f].named :
          /\ ~Reported(n, "export", f)
          /\ ~HasImporter(n, f)
          /\ n \in dcFs[f].bare

\* C9: a file that cannot be read or parsed never makes the dead-code query
\* fail: the query returns a result.
C9_QueryNeverFails ==
    dcResult # NullRec => ~dcResult.thrown

----------------------------------------------------------------------------
(* Properties of collision suffixing                                       *)

\* the list holds no name twice (what buildGraph hands over)
NoRepeats == \A i, j \in 1..Len(names) : names[i] = names[j] => i = j

\* names[i] is the first name of the list that derives its base code
FirstClaimant(i) ==
    \A h \in 1..(i - 1) : createShortName(names[h]) # createShortName(names[i])

\* C11: when two names of the list derive the same base code, the first name
\* of the list deriving that base code has the unsuffixed base code, the later
\* one has the base code followed by an integer suffix, and the two codes
\* differ, whatever other names precede them.
C11_FirstKeepsBaseCode ==
    (lpc = "idle" /\ calls > 0 /\ NoRepeats) =>
        \A i, j \in 1..Len(names) :
            (/\ i < j
             /\ FirstClaimant(i)
             /\ createShortName(names[i]) = createShortName(names[j])) =>
                /\ legend[names[i]] # legend[names[j]]
                /\ legend[names[i]] = createShortName(names[i])
                /\ \E k \in 1..Len(names) :
                      legend[names[j]] = createShortName(names[j]) \o NumToStr(k)

----------------------------------------------------------------------------
(* Properties of edges, orphans and duplicates                             *)

\* the declarations that record call sites: classes and standalone functions
Callers == {parsed.classes[i] : i \in 1..Len(parsed.classes)}
           \cup {parsed.functions[i] : i \in 1..Len(parsed.functions)}

\* the edge one call site of a caller should give, or none
EdgesOfCall(caller, call) ==
    LET leg == graph.legend
    IN  IF includesDot(call)
        THEN IF splitHead(call) \in DOMAIN leg
             THEN { <<leg[caller.name], "->",
                      Qualified(leg[splitHead(call)], codeOr(leg, splitSecond(call)))>> }
             ELSE {}
        ELSE IF call \in DOMAIN leg THEN { <<leg[caller.name], "->", leg[call]>> }
             ELSE {}

\* C12: the edges of the graph are exactly the edges of the recorded call
\* sites of every declaration, class or standalone function: caller ->
\* code(qualifier).method for a qualified call whose qualifier has a code,
\* caller -> code(callee) for a bare call of a known name, and no others.
C12_EdgesForEveryCaller ==
    graph # NullRec =>
        {graph.edges[i] : i \in 1..Len(graph.edges)}
            = UNION { UNION { EdgesOfCall(c, c.calls[k]) : k \in 1..Len(c.calls) } :
                      c \in Callers }

\* the call sites recorded for any declaration
CallSites == UNION { {c.calls[k] : k \in 1..Len(c.calls)} : c \in Callers }

Functions == {parsed.functions[i] : i \in 1..Len(parsed.functions)}
Orphans == {graph.orphans[i] : i \in 1..Len(graph.orphans)}

C14_DuplicatesIffTwoClasses ==
    graph # NullRec =>
        \A i \in 1..Len(parsed.classes) :
            \A k \in 1..Len(parsed.classes[i].methods) :
                LET m == parsed.classes[i].methods[k]
                    declaring == {j \in 1..Len(parsed.classes) :
                                    \E h \in 1..Len(parsed.classes[j].methods) :
                                        parsed.classes[j].methods[h] = m}
                IN  /\ m \in DOMAIN graph.duplicates <=> Cardinality(declaring) >= 2
                    /\ m \in DOMAIN graph.duplicates =>
                          /\ Len(graph.duplicates[m]) = Cardinality(declaring)
                          /\ {graph.duplicates[m][x] : x \in 1..Len(graph.duplicates[m])}
                               = {<<parsed.classes[j].name, parsed.classes[j].line>> :
                                    j \in declaring}

----------------------------------------------------------------------------
(* Properties of the rule matcher                                          *)

\* some occurrence of the pattern on the line starts outside a comment and
\* outside an open string
LiveOccurrence(text, pattern) ==
    \E p \in 1..Len(text) : occursAt(text, pattern, p) /\ ~isInStringOrComment(text, p)

\* C15: for every rule, literal or regex, and every line, a violation is
\* reported for the line if and only if at least one match of the pattern on
\* the line starts outside a single-line comment and outside an open string.
C15_ViolationIffLiveMatch ==
    ckPc # "check" =>
        ((\E v \in ckViolations : v.line = ckLineNo)
            <=> LiveOccurrence(ckLine, ckRule.pattern))

----------------------------------------------------------------------------
(* Properties of checkCustomRules.                                         *)

\* the violations the query asks for, in the order they were produced
Asked == severityFilter(allViolations(crRules), crSeverity)
sameTriple(v, w) == v.file = w.file /\ v.line = w.line /\ v.match = w.match
WithTriple(list, v) == SelectSeq(list, LAMBDA w : sameTriple(v, w))

\* C16: the violations counted and returned never hold two entries with the
\* same (file, line, matched text); of the violations the query asks for that
\* share one triple exactly one is returned, the one produced first, and the
\* total counts the returned entries.
C16_OneSurvivorTheFirst ==
    crResult # NullRec =>
        /\ crResult.total = Len(crResult.violations)
        /\ \A i \in 1..Len(crResult.violations) : \A j \in 1..Len(crResult.violations) :
               sameTriple(crResult.violations[i], crResult.violations[j]) => i = j
        /\ \A k \in 1..Len(Asked) :
               WithTriple(crResult.violations, Asked[k]) = <<WithTriple(Asked, Asked[k])[1]>>

----------------------------------------------------------------------------
(* Properties of calculateHealthScore.                                     *)

OnlySignal(s) ==
    hsResults[s] > 0 /\ \A t \in Signals \ {s} : hsResults[t] = 0
Raised(s) == [hsResults EXCEPT ![s] = @ + 1]

\* C17: the score is 100 without findings, below 100 when exactly one of the
\* ten listed signals is non-zero, whichever it is, and never rises when one
\* signal's count is raised by one.
C17_EverySignalSubtracts ==
    hsOverall # NullRec =>
        /\ hsResults = NoFindings => hsOverall.score = 100
        /\ \A s \in Signals : OnlySignal(s) => hsOverall.score < 100
        /\ \A s \in Signals : calculateHealthScore(Raised(s)).score <= hsOverall.score

----------------------------------------------------------------------------
(* Properties of getFullAnalysis.                                          *)

AllFulfilled == \A i \in 1..Len(Scorers) : faSettled[i].state = Fulfilled

\* C18: no scorer is started twice, a health score exists only when all six
\* scorers have completed, and a query that has ended, with a result or with
\* a failure, has started each of the six scorers exactly once.
C18_EachScorerOnceThenScore ==
    /\ \A i \in 1..Len(Scorers) : faStarted[i] <= 1
    /\ faOverall # NullRec => AllFulfilled
    /\ faPc \in {"done", "raised"} => \A i \in 1..Len(Scorers) : faStarted[i] = 1

----------------------------------------------------------------------------
(* Properties of calculateSimilarity and getSimilarFunctions.              *)

Compared == sfResult # NullRec /\ ~skipped(sfA, sfB)
Similarity == calculateSimilarity(sfA, sfB).similarity
ReportedPair == sfResult.total = 1
IdenticalSignatures ==
    /\ sfA.paramNames = sfB.paramNames
    /\ sfA.async = sfB.async
    /\ sfA.bodyHash = sfB.bodyHash
OnlyParamCount ==
    /\ paramCount(sfA) = paramCount(sfB)
    /\ commonCount(sfA.paramNames, sfB.paramNames) = 0
    /\ sfA.async # sfB.async
    /\ commonCount(sfA.bodyHash, sfB.bodyHash) = 0
    /\ sfA.calls \cap sfB.calls = {}

----------------------------------------------------------------------------
(* Properties of calculateComplexity and getRating.                        *)

Counted ==
    { "if", "?:", "for", "for-of", "for-in", "while", "do-while", "case",
      "&&", "||", "??", "catch" }
Occurrences(set) == Cardinality({i \in 1..Len(cxBody) : cxBody[i] \in set})

\* C20: the complexity is 1 plus the number of ifs, ternaries, loops,
\* non-default switch cases, && and || operators, ?? uses and catch clauses
\* of the body, rated low up to 5, moderate up to 10, high up to 20 and
\* critical above; one if gives 2 (low), six ifs give 7 (moderate).
C20_ComplexityCountsEveryDecision ==
    cxItem # NullRec =>
        /\ cxItem.complexity = 1 + Occurrences(Counted)
        /\ cxItem.rating =
              IF cxItem.complexity <= 5 THEN "low"
              ELSE IF cxItem.complexity <= 10 THEN "moderate"
              ELSE IF cxItem.complexity <= 20 THEN "high"
              ELSE "critical"
        /\ cxBody = <<"if">> => cxItem = [complexity |-> 2, rating |-> "low"]
        /\ cxBody = Repeat("if", 6) => cxItem = [complexity |-> 7, rating |-> "moderate"]

----------------------------------------------------------------------------
(* Range, rating and top issues of calculateHealthScore.                   *)

\* the issue strings in the order the code considers them
IssuesInOrder ==
    (IF hsResults["deadCode.total"] > 0
     THEN <<[n |-> hsResults["deadCode.total"], what |-> "unused functions/classes"]>>
     ELSE <<>>)
    \o (IF hsResults["undocumented.total"] > 10
        THEN <<[n |-> hsResults["undocumented.total"], what |-> "undocumented items"]>>
        ELSE <<>>)
    \o (IF hsResults["similar.total"] > 0
        THEN <<[n |-> hsResults["similar.total"], what |-> "similar function pairs"]>>
        ELSE <<>>)
    \o (IF hsResults["complexity.stats.critical"] > 0
        THEN <<[n |-> hsResults["complexity.stats.critical"],
                what |-> "critical complexity functions"]>>
        ELSE <<>>)
    \o (IF hsResults["largeFiles.stats.critical"] > 0
        THEN <<[n |-> hsResults["largeFiles.stats.critical"],
                what |-> "files need splitting"]>>
        ELSE <<>>)
    \o (IF hsResults["outdated.redundantDeps.length"] > 0
        THEN <<[n |-> hsResults["outdated.redundantDeps.length"],
                what |-> "redundant npm dependencies"]>>
        ELSE <<>>)

\* C30: the score is an integer from 10 to 100; the rating is excellent iff
\* score >= 90, good iff 70 <= score < 90, warning iff 50 <= score < 70 and
\* critical otherwise; the top issues are the first five, at most, of the
\* issues in computation order.
C30_ScoreRangeRatingTopIssues ==
    hsOverall # NullRec =>
        /\ hsOverall.score \in 10..100
        /\ (hsOverall.rating = "excellent") <=> (hsOverall.score >= 90)
        /\ (hsOverall.rating = "good") <=> (70 <= hsOverall.score /\ hsOverall.score < 90)
        /\ (hsOverall.rating = "warning") <=> (50 <= hsOverall.score /\ hsOverall.score < 70)
        /\ (hsOverall.rating = "critical") <=> (hsOverall.score < 50)
        /\ Len(hsOverall.topIssues) <= 5
        /\ hsOverall.topIssues =
              SubSeq(IssuesInOrder, 1, IF Len(IssuesInOrder) < 5 THEN Len(IssuesInOrder) ELSE 5)

C30_LowestScoreSixIssues ==
    /\ hsOverall # NullRec
    /\ hsOverall.score = 10
    /\ hsOverall.rating = "critical"
    /\ Len(IssuesInOrder) = 6
    /\ Len(hsOverall.topIssues) = 5

----------------------------------------------------------------------------
(* Member calls in the dead-code report                                    *)

\* the method names of a file's member calls
MethodNames(c) == {m[2] : m \in c.member}

\* the function name is referenced in the target directory as a callee, as
\* the object of a member call or as an identifier argument
ReferencedInDir(name) == \E g \in DirFiles : name \in Referenced(dcFs[g])

----------------------------------------------------------------------------
(* Properties of expand, deps and usages                                   *)

\* a tool was called and returned
Called(tool) == tlCall # NullRec /\ tlCall.tool = tool

\* the elements of a list
Elements(list) == {list[i] : i \in 1..Len(list)}

\* no element twice
EachOnce(list) == \A i, j \in 1..Len(list) : list[i] = list[j] => i = j

\* the target is the node itself or one of its methods
TargetsNode(target, symbol) ==
    \/ target = symbol
    \/ /\ Len(target) > Len(symbol)
       /\ SubSeq(target, 1, Len(symbol) + 1) = symbol \o <<".">>

\* C27: for a symbol that is a node of the graph, deps lists in usedBy exactly
\* the callers with an edge to the symbol or to one of its methods, in calls
\* exactly the targets of the edges leaving the symbol, each once; edges to
\* another node whose code starts with the same characters do not count.
C27_UsedByExactlyCallersOfSymbol ==
    (Called("deps") /\ tlCall.symbol \in DOMAIN tlCached.nodes) =>
        /\ tlResult.kind = "deps"
        /\ Elements(tlResult.usedBy) =
              { e[1] : e \in { x \in Elements(tlCached.edges) : TargetsNode(x[3], tlCall.symbol) } }
        /\ Elements(tlResult.calls) =
              { e[3] : e \in { x \in Elements(tlCached.edges) : x[1] = tlCall.symbol } }
        /\ EachOnce(tlResult.usedBy)
        /\ EachOnce(tlResult.calls)

\* deps apart from the prefix match: calls, no repetition, and no caller missed
DepsCallsAndNoRepeats ==
    (Called("deps") /\ tlCall.symbol \in DOMAIN tlCached.nodes) =>
        /\ tlResult.kind = "deps"
        /\ Elements(tlResult.calls) =
              { e[3] : e \in { x \in Elements(tlCached.edges) : x[1] = tlCall.symbol } }
        /\ EachOnce(tlResult.usedBy)
        /\ EachOnce(tlResult.calls)
        /\ { e[1] : e \in { x \in Elements(tlCached.edges) : TargetsNode(x[3], tlCall.symbol) } }
              \subseteq Elements(tlResult.usedBy)

\* the symbol names nothing of the graph: its part before the dot is no code
\* of the legend
UnknownSymbol == splitHead(tlCall.symbol) \notin DOMAIN tlCached.reverseLegend

\* C21: expand, deps and usages, given a symbol that is no code of the current
\* graph, return an error payload and leave the cached graph as it was.
C21_UnknownSymbolGivesErrorPayload ==
    (tlCall # NullRec /\ tlCached0 # NullRec /\ UnknownSymbol) =>
        /\ tlResult.kind = "error"
        /\ tlCached = tlCached0

\* the answers to an unknown symbol: expand answers every unknown symbol with an error
\* payload, deps every unknown symbol that is no inherited property name,
\* usages answers with a list, and the cached graph stays as it was
UnknownSymbolAnswers ==
    (tlCall # NullRec /\ tlCached0 # NullRec /\ UnknownSymbol) =>
        /\ tlCall.tool = "expand" => tlResult.kind = "error"
        /\ (tlCall.tool = "deps" /\ tlCall.symbol \notin ObjectPrototypeKeys)
              => tlResult.kind = "error"
        /\ tlCall.tool = "usages" => tlResult.kind = "usages"
        /\ tlCached = tlCached0

----------------------------------------------------------------------------
(* Properties of the test checklist                                        *)

\* the test steps on disk: <<feature index, test index>>
Steps == { s \in (1..Len(taFeatures)) \X (0..1) : s[2] < taFeatures[s[1]].tests }

StepId(s) == taFeatures[s[1]].name \o <<".">> \o NumToStr(s[2])

\* the position of the last reset in the log, 0 when there is none
LastReset ==
    IF \E i \in 1..Len(taLog) : taLog[i].op = "reset"
    THEN CHOOSE i \in 1..Len(taLog) :
            taLog[i].op = "reset" /\ \A j \in (i + 1)..Len(taLog) : taLog[j].op # "reset"
    ELSE 0

\* the marks made for an id since the last reset
MarksOf(id) == { i \in (LastReset + 1)..Len(taLog) : taLog[i].id = id }

\* the outcome of the last mark made for the id since the last reset
Outcome(id) ==
    IF MarksOf(id) = {} THEN "pending"
    ELSE taLog[CHOOSE i \in MarksOf(id) : \A j \in MarksOf(id) : j <= i].op

StepsWith(outcome) == { s \in Steps : Outcome(StepId(s)) = outcome }

\* C24: after any sequence of marks and resets the summary has
\* total = passed + failed + pending and counts each step under the outcome of
\* the last mark made for its id since the last reset, pending when there is
\* none; the pending list holds exactly the steps counted as pending; after a
\* reset every step is pending.
C24_SummaryCountsLastMarkSinceReset ==
    /\ (taResponse # NullRec /\ taResponse.kind = "summary") =>
          /\ taResponse.total = taResponse.passed + taResponse.failed + taResponse.pending
          /\ taResponse.total = Cardinality(Steps)
          /\ taResponse.passed = Cardinality(StepsWith("passed"))
          /\ taResponse.failed = Cardinality(StepsWith("failed"))
          /\ taResponse.pending = Cardinality(StepsWith("pending"))
          /\ (Len(taLog) > 0 /\ taLog[Len(taLog)].op = "reset")
                => taResponse.pending = taResponse.total
    /\ (taResponse # NullRec /\ taResponse.kind = "pending") =>
          /\ Len(taResponse.tests) = Cardinality(StepsWith("pending"))
          /\ { <<taResponse.tests[i].file, taResponse.tests[i].id>> :
                 i \in 1..Len(taResponse.tests) }
                = { <<s[1], StepId(s)>> : s \in StepsWith("pending") }

\* a summary with a passed, a failed and a pending step, made after a mark
\* was overwritten by a later mark of the same id
C24_SummaryAfterRemark ==
    /\ taResponse # NullRec
    /\ taResponse.kind = "summary"
    /\ taResponse.passed >= 1
    /\ taResponse.failed >= 1
    /\ taResponse.pending >= 1
    /\ \E i, j \in 1..Len(taLog) :
          i < j /\ taLog[i].id = taLog[j].id /\ taLog[i].op = "passed" /\ taLog[j].op = "failed"

\* a summary made after marks and a final reset
SummaryAfterFinalReset ==
    /\ taResponse # NullRec
    /\ taResponse.kind = "summary"
    /\ Len(taLog) = MaxCalls
    /\ taLog[1].op = "passed"
    /\ taLog[Len(taLog)].op = "reset"
    /\ taResponse.total >= 1

\* C28: every test step of the directory has an id that no other step has: a
\* mark of one id changes the status of exactly one step.
C28_MarkedIdNamesOneStep ==
    (taResponse # NullRec /\ taResponse.kind = "mark") =>
        Cardinality({ s \in Steps : StepId(s) = taResponse.testId }) <= 1

----------------------------------------------------------------------------
(* Properties of the custom rule tools                                     *)

\* the file holds a record with a name and a rules list
WellFormed(content) ==
    /\ content \notin {Missing, Invalid}
    /\ "name" \in DOMAIN content
    /\ "rules" \in DOMAIN content

WellFormedNames == { rdFiles0[f].name : f \in { g \in DOMAIN rdFiles0 : WellFormed(rdFiles0[g]) } }

RuleIdsOf(rules) == { rules[i].id : i \in 1..Len(rules) }

\* C22: a malformed rule-set record (invalid JSON, no name, no rules list) is
\* skipped: getCustomRules and checkCustomRules return a result, and the
\* result is built from the well-formed rule sets.
C22_MalformedRecordSkipped ==
    (rdCall # NullRec /\ rdCall.kind \in {"get", "check"}) =>
        /\ rdResult.kind # "thrown"
        /\ rdResult.kind = "rules" => DOMAIN rdResult.ruleSets = WellFormedNames
        /\ rdResult.kind = "check" =>
              \A i \in 1..Len(rdResult.allRules) :
                  \E f \in DOMAIN rdFiles0 :
                      /\ WellFormed(rdFiles0[f])
                      /\ \E j \in 1..Len(rdFiles0[f].rules) :
                            rdFiles0[f].rules[j] = rdResult.allRules[i]

\* a file that is not JSON is skipped: the tools answer as if it were absent
InvalidJsonSkipped ==
    (rdCall # NullRec /\ rdCall.kind \in {"get", "check"} /\ rdFiles0["t"] = Invalid) =>
        /\ rdResult.kind # "thrown"
        /\ rdCall.kind = "get" =>
              rdResult = getCustomRules([rdFiles0 EXCEPT !["t"] = Missing])
        /\ rdCall.kind = "check" =>
              rdResult = collectRules([rdFiles0 EXCEPT !["t"] = Missing], rdCall.options)

SetAppended ==
    /\ rdCall # NullRec
    /\ rdCall.kind = "set"
    /\ rdFiles0["s"] = FullRecord("s", <<Rule("r1", "x")>>, TRUE, "none")
    /\ rdFiles["s"] = FullRecord("s", <<Rule("r1", "x"), Rule("r2", "y")>>, TRUE, "none")

----------------------------------------------------------------------------
(* Properties of the MCP server                                            *)

\* the responses among the messages sent while handling the last line
RepliesSent == SelectSeq(svLast.out, LAMBDA m : m.kind \in {"result", "error"})

\* the reply a request is owed
OwedReply(msg) ==
    IF msg.method \in {"initialize", "tools/list"} \/ (msg.method = "tools/call" /\ msg.detail = "known")
    THEN [kind |-> "result", id |-> msg.id, code |-> 0]
    ELSE IF msg.method = "tools/call"
         THEN [kind |-> "error", id |-> msg.id, code |-> -32000]
         ELSE [kind |-> "error", id |-> msg.id, code |-> -32601]

\* every request is answered once, with its id
RequestsAnswered ==
    (svLast # NullRec /\ svLast.msg.kind = "request") =>
        RepliesSent = <<OwedReply(svLast.msg)>>

\* C25: a message with a method and an id gets exactly one response with the
\* same id (a result, -32601 for an unknown method, -32000 for an unknown or
\* throwing tool); a notification and a message that is itself a response get
\* no response.
C25_OneReplyPerRequestNoneOtherwise ==
    svLast # NullRec =>
        IF svLast.msg.kind = "request"
        THEN RepliesSent = <<OwedReply(svLast.msg)>>
        ELSE RepliesSent = <<>>

\* the roots/list requests sent so far
SentRootRequests == { id \in DOMAIN svPromises : svPromises[id].state # "unsent" }

\* a request that is neither settled nor able to be settled any more
Stranded(id) ==
    /\ svPromises[id].state = "pending"
    /\ id \notin pendingRequests \/ id \notin svTimers

\* C29: every roots/list request is settled once, by the matching response or
\* by the timer, and then has no entry in pendingRequests; a response without
\* a pending id changes nothing; ids are not reused.
C29_RootRequestsSettledOnce ==
    /\ \A id \in SentRootRequests :
          /\ ~Stranded(id)
          /\ svPromises[id].state \in {"resolved", "rejected"}
                => id \notin pendingRequests /\ id \notin svTimers
    /\ SentRootRequests = 1..(nextRequestId - 1)
    /\ pendingRequests \subseteq SentRootRequests

\* the same as long as no response made the handler throw
RootRequestsSettledUnlessCaught ==
    ~svCaught => C29_RootRequestsSettledOnce

\* a late or unknown response changes nothing but the record of the last line
LateResponseIgnored ==
    [][ (\E msg \in ClientResponses : ReceiveResponse(msg) /\ msg.id \notin pendingRequests)
            => UNCHANGED <<clientSupportsRoots, nextRequestId, pendingRequests, svTimers,
                           svPromises, svRoots, svCacheValid, svCaught>> ]_vars

====
